---- MODULE Spec2Model ----
(***************************************************************************)
(* A model of the SmartSpend expense tracker: the analytics functions of   *)
(* src/utils/analytics.ts, the need/want classifier of                     *)
(* src/services/aiClassification.ts, the daily forecast of the budget       *)
(* service and the AsyncStorage-backed transaction store with the App's     *)
(* add / update / delete handlers.                                          *)
(*                                                                         *)
(* Strings are TLA+ strings (Len, SubSeq and \o work on them).  Amounts are *)
(* whole currency units: every sum, product and comparison the code makes   *)
(* on them is exact in IEEE doubles for the magnitudes used here.  A        *)
(* quotient the code leaves as a double (a percentage, a mean) is kept as   *)
(* an exact fraction <<numerator, denominator>>.  Confidences are counted   *)
(* in tenths.                                                              *)
(***************************************************************************)
EXTENDS Integers, Sequences, FiniteSets

VARIABLES
    transactions,        \* the in-memory Transaction[] (an argument, or App's state)
    period,              \* calculateCategoryBreakdown's period prefix
    breakdown,           \* the CategoryBreakdown[] it returned
    insights,            \* the SpendingInsight[] generateSpendingInsights returned
    called,              \* the name of the pure function that has been applied, "" before
    transaction,         \* classifyTransaction's transaction
    userClassifications, \* classifyTransaction's prior user classifications
    classified,          \* the ClassifiedTransaction it returned, <<>> before
    monthlyBudget,       \* calculateDailyForecast's monthly budget
    targetDate,          \* its target date, [year, month (1..12), day] in local time
    forecast,            \* the DailyForecast it returned, <<>> before
    storage,             \* AsyncStorage: key -> <<>> (no item) or <<the JSON array stored>>
    now,                 \* Date.now(), in milliseconds
    calls,               \* the invocations of App's handlers, each at its await
    returned,            \* what the last call of a storage getter returned
    today,               \* new Date() in BudgetAIService, [year, month (1..12), day]
    seasonCategory,      \* getSeasonalFactor's category
    seasonalFactor,      \* the factor it returned, in hundredths; 0 before
    existingBudgets,     \* generateBudgetSuggestions' existing UserBudget[]
    budgetSuggestions,   \* the BudgetSuggestion[] it returned
    suggestions,         \* the BudgetSuggestions screen's state: the suggestions it shows
    goals,               \* the SavingsGoals screen's state: the goals it shows
    badges,              \* the ClassificationBadge instances mounted, each with its state
    routineStorage,      \* AsyncStorage under the profile keys: key -> <<>> or <<item>>
    currentProfileId,    \* ProfileManager's currentProfileId
    screenCall           \* the last handler of a screen or method of a service that ran, <<>> before

analyticsVars == <<transactions, period, breakdown, insights>>
classifyVars == <<transaction, userClassifications, classified>>
forecastVars == <<monthlyBudget, targetDate, forecast>>

storeVars == <<storage, now, calls, returned>>

seasonVars == <<seasonCategory, seasonalFactor>>
budgetVars == <<existingBudgets, budgetSuggestions>>
goalVars == <<goals>>
badgeVars == <<badges>>
screenVars == <<suggestions, screenCall, goalVars, badgeVars>>
profileVars == <<routineStorage, currentProfileId>>
aiVars == <<today, seasonVars, budgetVars, screenVars, profileVars>>

vars == <<analyticsVars, called, classifyVars, forecastVars, storeVars, aiVars>>

(***************************************************************************)
(* Bounds of the model.                                                    *)
(***************************************************************************)
MaxTransactions == 4          \* longest list given to generateSpendingInsights
MaxBreakdownTx == 3           \* longest list given to calculateCategoryBreakdown
MaxHistory == 2               \* longest list of prior user classifications
MaxForecastTx == 2            \* longest list given to calculateDailyForecast
MaxCalls == 2                 \* handler invocations (each may overlap the others)
MaxTicks == 1                 \* milliseconds the clock advances
MaxBudgetTx == 3              \* longest list given to generateBudgetSuggestions
MaxScreenTx == 3              \* longest list given to the BudgetSuggestions screen
MaxGoals == 2                 \* goals the SavingsGoals screen shows
MaxSaved == 140               \* a goal's currentAmount
MaxBadges == 2                \* ClassificationBadge instances mounted
MaxProfiles == 2              \* profiles stored
MaxProfileTx == 2             \* transactions stored under ProfileManager
MaxProfileCalls == 3          \* calls of ProfileManager (each may overlap the others)
MaxDailyForecastTx == 1       \* longest list given to the Daily Forecast screen
MaxDailyForecastBudgets == 3  \* budgets stored under the Daily Forecast screen
MaxRecurring == 2             \* calls of createRecurringExpense
MaxRecurringTx == 4           \* transactions stored before a call of processRecurringExpenses

\* every sequence over S of length at most n
SeqsUpTo(S, n) == UNION {[1..k -> S] : k \in 0..n}

(***************************************************************************)
(* String helpers (the JavaScript String methods the code calls).          *)
(***************************************************************************)
\* String.prototype.startsWith
StartsWith(s, p) ==
    /\ Len(p) <= Len(s)
    /\ SubSeq(s, 1, Len(p)) = p

\* String.prototype.includes
Includes(s, k) ==
    \E i \in 1..(Len(s) - Len(k) + 1) : SubSeq(s, i, i + Len(k) - 1) = k

UpperCaseLetters == "ABCDEFGHIJKLMNOPQRSTUVWXYZ"
LowerCaseLetters == "abcdefghijklmnopqrstuvwxyz"

LowerChar(c) ==
    IF \E i \in 1..Len(UpperCaseLetters) : SubSeq(UpperCaseLetters, i, i) = c
    THEN LET i == CHOOSE j \in 1..Len(UpperCaseLetters) : SubSeq(UpperCaseLetters, j, j) = c
         IN  SubSeq(LowerCaseLetters, i, i)
    ELSE c

RECURSIVE ToLowerCase(_)
\* String.prototype.toLowerCase
ToLowerCase(s) ==
    IF Len(s) = 0 THEN ""
    ELSE LowerChar(SubSeq(s, 1, 1)) \o ToLowerCase(SubSeq(s, 2, Len(s)))

DecimalDigits == "0123456789"

DigitChar(d) == SubSeq(DecimalDigits, d + 1, d + 1)

DigitVal(c) == (CHOOSE j \in 1..Len(DecimalDigits) : SubSeq(DecimalDigits, j, j) = c) - 1

RECURSIVE NumberToString(_)
\* Number.prototype.toString / String(n) of a natural number
NumberToString(n) ==
    IF n < 10 THEN DigitChar(n)
    ELSE NumberToString(n \div 10) \o DigitChar(n % 10)

RECURSIVE PadStart(_, _)
\* String.prototype.padStart(n, '0')
PadStart(s, n) == IF Len(s) < n THEN PadStart("0" \o s, n) ELSE s

RECURSIVE ParseInt(_)
\* the number a run of decimal digits denotes
ParseInt(s) ==
    IF Len(s) = 0 THEN 0
    ELSE ParseInt(SubSeq(s, 1, Len(s) - 1)) * 10 + DigitVal(SubSeq(s, Len(s), Len(s)))

(***************************************************************************)
(* Array and Map helpers.                                                  *)
(***************************************************************************)
\* Array.prototype.filter is Sequences' SelectSeq.

RECURSIVE SumAmounts(_)
\* reduce((sum, t) => sum + t.amount, 0)
SumAmounts(seq) ==
    IF seq = <<>> THEN 0 ELSE SumAmounts(SubSeq(seq, 1, Len(seq) - 1)) + seq[Len(seq)].amount

\* A JavaScript Map is a sequence of <<key, value>> entries in insertion order.
MapHas(m, k) == \E i \in 1..Len(m) : m[i][1] = k

\* map.get(k) || 0
MapGetOr0(m, k) ==
    IF MapHas(m, k) THEN m[CHOOSE i \in 1..Len(m) : m[i][1] = k][2] ELSE 0

\* map.set(k, v): an existing key keeps its place
MapSet(m, k, v) ==
    IF MapHas(m, k)
    THEN [i \in 1..Len(m) |-> IF m[i][1] = k THEN <<k, v>> ELSE m[i]]
    ELSE Append(m, <<k, v>>)

RECURSIVE SumValues(_)
\* Array.from(map.values()).reduce((sum, amount) => sum + amount, 0)
SumValues(m) ==
    IF m = <<>> THEN 0 ELSE SumValues(SubSeq(m, 1, Len(m) - 1)) + m[Len(m)][2]

\* one step of a stable insertion: index i goes after every index of the descending
\* order whose key is >= its own
InsertDesc(order, i, keys) ==
    LET k == Cardinality({j \in 1..Len(order) : keys[order[j]] >= keys[i]})
    IN  SubSeq(order, 1, k) \o <<i>> \o SubSeq(order, k + 1, Len(order))

\* Array.prototype.sort((a, b) => key(b) - key(a)): descending and stable; keys[i] is
\* the key of seq[i]
SortDesc(seq, keys) ==
    LET S[i \in 0..Len(seq)] ==
            IF i = 0 THEN <<>> ELSE InsertDesc(S[i - 1], i, keys)
    IN  [j \in 1..Len(seq) |-> seq[S[Len(seq)][j]]]

\* Array.prototype.slice(0, n)
Slice0(seq, n) == SubSeq(seq, 1, IF Len(seq) < n THEN Len(seq) ELSE n)

(***************************************************************************)
(* src/types/index.ts: a Transaction.  An optional field (note?: string)   *)
(* is <<>> when absent and <<value>> when present.                         *)
(***************************************************************************)
Transaction(id, title, amount, category, date, note, type) ==
    [id |-> id, title |-> title, amount |-> amount, category |-> category,
     date |-> date, note |-> note, type |-> type, isNeed |-> FALSE, createdAt |-> ""]

(***************************************************************************)
(* src/utils/analytics.ts                                                  *)
(***************************************************************************)
\* forEach(t => map.set(key(t), (map.get(key(t)) || 0) + t.amount)) from an empty Map;
\* keys[i] is the key of seq[i]
SumByKey(seq, keys) ==
    LET M[i \in 0..Len(seq)] ==
            IF i = 0 THEN <<>>
            ELSE MapSet(M[i - 1], keys[i], MapGetOr0(M[i - 1], keys[i]) + seq[i].amount)
    IN  M[Len(seq)]

\* the keys of a sequence of records or entries
Categories(seq) == [i \in 1..Len(seq) |-> seq[i].category]
Dates(seq) == [i \in 1..Len(seq) |-> seq[i].date]
Amounts(seq) == [i \in 1..Len(seq) |-> seq[i].amount]
Totals(m) == [i \in 1..Len(m) |-> m[i][2]]

PercentageAlwaysDivides(amount, total) == <<amount * 100, total>>

\* total > 0 ? (amount / total) * 100 : 0, as an exact fraction
Percentage(amount, total) ==
    IF total > 0 THEN <<amount * 100, total>> ELSE <<0, 1>>

PeriodTransactionsAnyType(txs, p) ==
    SelectSeq(txs, LAMBDA t : StartsWith(t.date, p))

\* transactions.filter(t => t.date.startsWith(period) && t.type === 'expense')
PeriodTransactions(txs, p) ==
    SelectSeq(txs, LAMBDA t : StartsWith(t.date, p) /\ t.type = "expense")

\* The color field (a hash of the category name into a fixed palette) is left out.
calculateCategoryBreakdown(txs, p) ==
    LET periodTransactions == PeriodTransactions(txs, p)
        total == SumAmounts(periodTransactions)
        categoryMap == SumByKey(periodTransactions, Categories(periodTransactions))
        entries == [i \in 1..Len(categoryMap) |->
                      [category |-> categoryMap[i][1],
                       amount |-> categoryMap[i][2],
                       percentage |-> Percentage(categoryMap[i][2], total)]]
    IN  SortDesc(entries, Amounts(entries))

\* the month a date string falls in, counted from year 0
MonthIndex(date) == ParseInt(SubSeq(date, 1, 4)) * 12 + ParseInt(SubSeq(date, 6, 7)) - 1

SetMax(S) == CHOOSE x \in S : \A y \in S : y <= x
SetMin(S) == CHOOSE x \in S : \A y \in S : x <= y

getMonthsBetween(txs) ==
    IF Len(txs) = 0 THEN 1
    ELSE LET idx == {MonthIndex(txs[i].date) : i \in 1..Len(txs)}
             months == SetMax(idx) - SetMin(idx) + 1
         IN  IF months < 1 THEN 1 ELSE months

ExceedsAtLeast(amount, sum, size) == amount * size * 10 >= sum * 15

\* amount > avgDailySpending * 1.5, with avgDailySpending = sum / size and size > 0
Exceeds(amount, sum, size) == amount * size * 10 > sum * 15

HighSpendingDaysUncapped(dailySpending) ==
    LET sum == SumValues(dailySpending)
        size == Len(dailySpending)
        high == SelectSeq(dailySpending, LAMBDA e : Exceeds(e[2], sum, size))
    IN  SortDesc(high, Totals(high))

\* the entries of dailySpending above 1.5 times their mean, largest first, at most 3
HighSpendingDays(dailySpending) ==
    LET sum == SumValues(dailySpending)
        size == Len(dailySpending)
        high == SelectSeq(dailySpending, LAMBDA e : Exceeds(e[2], sum, size))
    IN  Slice0(SortDesc(high, Totals(high)), 3)

BalanceInsightOrEqual(balance) ==
    IF balance < 0
    THEN <<[type |-> "savings_suggestion", title |-> "Budget Alert",
            value |-> -balance, date |-> <<>>]>>
    ELSE <<[type |-> "savings_suggestion", title |-> "Good Financial Health",
            value |-> balance, date |-> <<>>]>>

\* if (balance < 0) push 'Budget Alert' else if (balance > 0) push 'Good Financial Health'
BalanceInsight(balance) ==
    IF balance < 0
    THEN <<[type |-> "savings_suggestion", title |-> "Budget Alert",
            value |-> -balance, date |-> <<>>]>>
    ELSE IF balance > 0
    THEN <<[type |-> "savings_suggestion", title |-> "Good Financial Health",
            value |-> balance, date |-> <<>>]>>
    ELSE <<>>

\* The description strings (formatted currency and dates) are left out.
generateSpendingInsights(txs) ==
    LET expenses == SelectSeq(txs, LAMBDA t : t.type = "expense")
        income == SelectSeq(txs, LAMBDA t : t.type = "income")
        dailySpending == SumByKey(expenses, Dates(expenses))
        highSpendingDays == HighSpendingDays(dailySpending)
        categoryTotals == SumByKey(expenses, Categories(expenses))
        topCategory == SortDesc(categoryTotals, Totals(categoryTotals))[1]
        totalExpenses == SumAmounts(expenses)
        totalIncome == SumAmounts(income)
        balance == totalIncome - totalExpenses
        months == getMonthsBetween(expenses)
    IN  IF Len(txs) = 0 THEN <<>>
        ELSE IF Len(expenses) = 0 THEN <<>>
        ELSE [i \in 1..Len(highSpendingDays) |->
                 [type |-> "high_spending_day", title |-> "High Spending Day",
                  value |-> highSpendingDays[i][2], date |-> <<highSpendingDays[i][1]>>]]
             \o <<[type |-> "category_trend", title |-> "Top Spending Category",
                   value |-> topCategory[2], date |-> <<>>]>>
             \o BalanceInsight(balance)
             \o (IF totalExpenses > 1000 * months
                 THEN <<[type |-> "savings_suggestion", title |-> "Savings Opportunity",
                         value |-> <<totalExpenses, months * 10>>, date |-> <<>>]>>
                 ELSE <<>>)

(***************************************************************************)
(* src/services/aiClassification.ts                                        *)
(***************************************************************************)
NEED_CATEGORIES == <<"Health", "Transportation", "Housing", "Utilities", "Insurance">>

NEED_KEYWORDS ==
    <<"medicine", "doctor", "hospital", "pharmacy", "medical",
      "rent", "mortgage", "electricity", "water", "gas", "internet",
      "insurance", "transport", "bus", "train", "fuel", "gasoline",
      "groceries", "food", "essential", "basic", "necessity">>

WANT_KEYWORDS ==
    <<"entertainment", "movie", "restaurant", "dining", "coffee",
      "shopping", "clothes", "fashion", "luxury", "premium",
      "gaming", "hobby", "sports", "fitness", "gym",
      "vacation", "travel", "hotel", "ticket", "concert",
      "gift", "present", "treat", "splurge", "indulge">>

\* note || ''
NoteOrEmpty(note) == IF note = <<>> THEN "" ELSE note[1]

ClassificationTextCaseSensitive(t) == t.category \o " " \o NoteOrEmpty(t.note)

\* `${category} ${note || ''}`.toLowerCase()
ClassificationText(t) == ToLowerCase(t.category \o " " \o NoteOrEmpty(t.note))

\* NEED_CATEGORIES.some(needCat => category.toLowerCase().includes(needCat.toLowerCase()))
MatchesNeedCategory(category) ==
    \E i \in 1..Len(NEED_CATEGORIES) :
        Includes(ToLowerCase(category), ToLowerCase(NEED_CATEGORIES[i]))

\* keywords.filter(keyword => text.includes(keyword)).length
KeywordHits(keywords, text) ==
    Cardinality({i \in 1..Len(keywords) : Includes(text, keywords[i])})

getAmountFactor(amount) ==
    IF amount < 50 THEN "low" ELSE IF amount < 200 THEN "medium" ELSE "high"

ruleBasedClassification(t) ==
    LET text == ClassificationText(t)
        needScore == KeywordHits(NEED_KEYWORDS, text)
        wantScore == KeywordHits(WANT_KEYWORDS, text)
        amountFactor == getAmountFactor(t.amount)
    IN  IF MatchesNeedCategory(t.category) THEN "need"
        ELSE IF needScore > wantScore THEN "need"
        ELSE IF wantScore > needScore THEN "want"
        ELSE IF amountFactor = "high" /\ t.amount > 100 THEN "want"
        ELSE IF amountFactor = "low" /\ t.amount < 20 THEN "need"
        ELSE "unclassified"

\* Math.min(a, b)
Min(a, b) == IF a < b THEN a ELSE b

\* Math.max(a, b)
Max(a, b) == IF a > b THEN a ELSE b

CalculateConfidenceUncapped(t, classification) ==
    LET text == ClassificationText(t)
    IN  5 + (IF MatchesNeedCategory(t.category) THEN 3 ELSE 0)
          + (IF KeywordHits(NEED_KEYWORDS, text) > 0 THEN 2 ELSE 0)
          + (IF KeywordHits(WANT_KEYWORDS, text) > 0 THEN 2 ELSE 0)
          + (IF t.amount > 200 THEN 1 ELSE 0)
          + (IF t.amount < 50 THEN 1 ELSE 0)
          + (IF t.note # <<>> /\ Len(NoteOrEmpty(t.note)) > 10 THEN 1 ELSE 0)

\* calculateConfidence with `let confidence = 0` in place of the base 0.5
CalculateConfidenceFromZero(t, classification) ==
    LET text == ClassificationText(t)
    IN  Min((IF MatchesNeedCategory(t.category) THEN 3 ELSE 0)
              + (IF KeywordHits(NEED_KEYWORDS, text) > 0 THEN 2 ELSE 0)
              + (IF KeywordHits(WANT_KEYWORDS, text) > 0 THEN 2 ELSE 0)
              + (IF t.amount > 200 THEN 1 ELSE 0)
              + (IF t.amount < 50 THEN 1 ELSE 0)
              + (IF t.note # <<>> /\ Len(NoteOrEmpty(t.note)) > 10 THEN 1 ELSE 0),
            10)

\* the confidence in tenths: base 0.5 is 5, the cap 1.0 is 10
calculateConfidence(t, classification) ==
    LET text == ClassificationText(t)
        confidence ==
            5 + (IF MatchesNeedCategory(t.category) THEN 3 ELSE 0)
              + (IF KeywordHits(NEED_KEYWORDS, text) > 0 THEN 2 ELSE 0)
              + (IF KeywordHits(WANT_KEYWORDS, text) > 0 THEN 2 ELSE 0)
              + (IF t.amount > 200 THEN 1 ELSE 0)
              + (IF t.amount < 50 THEN 1 ELSE 0)
              + (IF t.note # <<>> /\ Len(NoteOrEmpty(t.note)) > 10 THEN 1 ELSE 0)
    IN  Min(confidence, 10)

\* a stored transaction a working lookup would return for any id
FindTransactionByIdFound(id) ==
    <<Transaction(id, "t", 20, "Health", "2024-05-01", <<>>, "expense")>>

\* the mock lookup: always null (<<>>); a found transaction would be <<transaction>>
findTransactionById(id) == <<>>

RECURSIVE SumWeights(_)
\* reduce((sum, c) => sum + c.weight, 0), the weight being the confidence
SumWeights(seq) ==
    IF seq = <<>> THEN 0
    ELSE SumWeights(SubSeq(seq, 1, Len(seq) - 1)) + seq[Len(seq)].confidence

\* the result is [classification, confidence]
learnFromUserHistory(t, ucs, defaultClassification, defaultConfidence) ==
    LET default == [classification |-> defaultClassification,
                    confidence |-> defaultConfidence]
        similarTransactions ==
            SelectSeq(ucs, LAMBDA uc :
                LET userTransaction == findTransactionById(uc.transactionId)
                IN  IF userTransaction = <<>> THEN FALSE
                    ELSE /\ userTransaction[1].category = t.category
                         /\ userTransaction[1].amount - t.amount < 50
                         /\ t.amount - userTransaction[1].amount < 50)
        needWeight ==
            SumWeights(SelectSeq(similarTransactions, LAMBDA c : c.classification = "need"))
        wantWeight ==
            SumWeights(SelectSeq(similarTransactions, LAMBDA c : c.classification = "want"))
    IN  IF Len(ucs) = 0 THEN default
        ELSE IF Len(similarTransactions) = 0 THEN default
        ELSE IF needWeight > wantWeight
             THEN [classification |-> "need", confidence |-> Min(defaultConfidence + 2, 10)]
        ELSE IF wantWeight > needWeight
             THEN [classification |-> "want", confidence |-> Min(defaultConfidence + 2, 10)]
        ELSE default

\* A list that is not supplied (undefined) and an empty list take the same branch and
\* are both <<>>.  The catch branch needs a transaction whose category is no string,
\* which a Transaction never is.  classifiedAt (the time of the call) is left out.
classifyTransaction(t, ucs) ==
    LET classification == ruleBasedClassification(t)
        confidence == calculateConfidence(t, classification)
        learnedClassification == learnFromUserHistory(t, ucs, classification, confidence)
    IN  [transactionId |-> t.id,
         classification |-> learnedClassification.classification,
         confidence |-> learnedClassification.confidence,
         aiGenerated |-> TRUE]

(***************************************************************************)
(* src/services/notifications.ts: BudgetAIService                          *)
(***************************************************************************)
IsLeapYear(year) == (year % 4 = 0 /\ year % 100 # 0) \/ year % 400 = 0

\* new Date(year, month, 0).getDate(): the last day of month (1..12) of year
DaysInMonth(year, month) ==
    IF month = 2 THEN (IF IsLeapYear(year) THEN 29 ELSE 28)
    ELSE IF month \in {4, 6, 9, 11} THEN 30 ELSE 31

\* getFullYear() + '-' + String(getMonth() + 1).padStart(2, '0')
CurrentMonth(date) ==
    NumberToString(date.year) \o "-" \o PadStart(NumberToString(date.month), 2)

RemainingBudgetUnfloored(budget, spentSoFar) == budget - spentSoFar

\* Math.max(0, monthlyBudget - spentSoFar)
RemainingBudget(budget, spentSoFar) == Max(0, budget - spentSoFar)

\* Math.round(x * 100) / 100 for x = n / d, d > 0, as the fraction <<cents, 100>>;
\* Math.round rounds a half up
RoundToCents(n, d) == <<(2 * 100 * n + d) \div (2 * d), 100>>

\* spendingRatio = spentSoFar / ((monthlyBudget / daysInMonth) * currentDay) is the
\* fraction num / den; a zero den makes it Infinity, -Infinity or NaN, and NaN is
\* below nothing.
calculateRiskLevel(spentSoFar, budget, currentDay, daysInMonth) ==
    LET num == spentSoFar * daysInMonth
        den == budget * currentDay
        \* spendingRatio < k / 10
        Below(k) == IF den > 0 THEN 10 * num < k * den
                    ELSE IF den < 0 THEN 10 * num > k * den
                    ELSE num < 0
    IN  IF Below(8) THEN "low" ELSE IF Below(12) THEN "medium" ELSE "high"

\* The date field (the UTC date of targetDate) is left out.
calculateDailyForecast(txs, budget, date) ==
    LET currentMonth == CurrentMonth(date)
        monthTransactions == SelectSeq(txs, LAMBDA t : StartsWith(t.date, currentMonth))
        spentSoFar == SumAmounts(monthTransactions)
        daysInMonth == DaysInMonth(date.year, date.month)
        currentDay == date.day
        daysLeft == daysInMonth - currentDay + 1
        remainingBudget == RemainingBudget(budget, spentSoFar)
        safeToSpend == IF daysLeft > 0 THEN RoundToCents(remainingBudget, daysLeft)
                       ELSE <<0, 100>>
    IN  [safeToSpend |-> safeToSpend,
         monthlyBudget |-> budget,
         spentSoFar |-> spentSoFar,
         daysLeft |-> daysLeft,
         riskLevel |-> calculateRiskLevel(spentSoFar, budget, currentDay, daysInMonth)]

IsHolidaySeasonNovDec(month) == month = 10 \/ month = 11

\* month === 11 || month === 0, month being getMonth() (0..11)
IsHolidaySeason(month) == month = 11 \/ month = 0

\* the factor in hundredths: 1.3 is 130, 1.0 is 100
getSeasonalFactor(cat, date) ==
    LET month == date.month - 1
        lower == ToLowerCase(cat)
    IN  IF IsHolidaySeason(month)
           /\ (Includes(lower, "shopping") \/ Includes(lower, "gift"))
        THEN 130
        ELSE IF month >= 5 /\ month <= 8
                /\ (Includes(lower, "travel") \/ Includes(lower, "entertainment"))
        THEN 120
        ELSE IF (month = 7 \/ month = 8)
                /\ (Includes(lower, "education") \/ Includes(lower, "shopping"))
        THEN 115
        ELSE 100

(***************************************************************************)
(* The pure functions are applied to inputs drawn by the initial state;    *)
(* `called` names the function that has been applied.                      *)
(***************************************************************************)
\* the lists calculateCategoryBreakdown is given: expenses of two categories in
\* May and June 2024 with positive and negative stored amounts, and an income
BreakdownTransactions ==
    {Transaction("1", "t", a, c, d, <<>>, "expense") :
        a \in {-6, 2, 4}, c \in {"Food", "Rent"}, d \in {"2024-05-01", "2024-05-15"}}
    \cup {Transaction("1", "t", 4, "Food", "2024-06-01", <<>>, "expense"),
          Transaction("1", "t", 4, "Food", "2024-05-01", <<>>, "income")}

Periods == {"2024-05", "2024-05-01", "2024-0", "2025"}

\* the lists generateSpendingInsights is given
InsightTransactions ==
    {Transaction("1", "t", a, "Food", d, <<>>, "expense") :
        a \in {-1, 1}, d \in {"2024-05-01", "2024-05-02", "2024-05-03", "2024-06-01"}}
    \cup {Transaction("1", "t", 3, "Rent", "2024-05-02", <<>>, "expense"),
          Transaction("1", "t", 2400, "Rent", "2024-06-01", <<>>, "expense"),
          Transaction("1", "t", 3, "Salary", "2024-05-01", <<>>, "income")}

\* the transactions classifyTransaction is given
ClassifyCategories ==
    {"Health", "HEALTHCARE", "Home Insurance", "Medical Checkup",
     "Food", "Shopping", "Misc"}

ClassifyNotes ==
    {<<>>, <<"">>, <<"doctor visit today">>,
     <<"movie ticket and coffee">>, <<"monthly bill">>}

ClassifyAmounts == {-5, 19, 20, 49, 50, 101, 200, 201}

\* the prior user classifications it is given
PriorClassifications ==
    {[transactionId |-> "2", classification |-> "need", confidence |-> 10, aiGenerated |-> FALSE],
     [transactionId |-> "2", classification |-> "want", confidence |-> 10, aiGenerated |-> FALSE],
     [transactionId |-> "1", classification |-> "want", confidence |-> 5, aiGenerated |-> FALSE],
     [transactionId |-> "3", classification |-> "unclassified", confidence |-> 0, aiGenerated |-> FALSE]}

IdleAnalytics ==
    /\ transactions = <<>>
    /\ period = ""
    /\ breakdown = <<>>
    /\ insights = <<>>

IdleClassify ==
    /\ transaction = <<>>
    /\ userClassifications = <<>>
    /\ classified = <<>>

IdleForecast ==
    /\ monthlyBudget = 0
    /\ targetDate = <<>>
    /\ forecast = <<>>

IdleSeason ==
    /\ seasonCategory = ""
    /\ seasonalFactor = 0

IdleBudget ==
    /\ existingBudgets = <<>>
    /\ budgetSuggestions = <<>>

IdleGoals == goals = <<>>

IdleBadges == badges = <<>>

IdleProfiles ==
    /\ routineStorage = <<>>
    /\ currentProfileId = "personal"

IdleScreens ==
    /\ suggestions = <<>>
    /\ screenCall = <<>>
    /\ IdleGoals
    /\ IdleBadges

IdleAi ==
    /\ today = <<>>
    /\ IdleSeason
    /\ IdleBudget
    /\ IdleScreens
    /\ IdleProfiles

IdleStore ==
    /\ storage = <<>>
    /\ now = 0
    /\ calls = <<>>
    /\ returned = <<>>

\* the lists, budgets and dates calculateDailyForecast is given
ForecastTransactions ==
    {Transaction("1", "t", a, "Food", d, <<>>, ty) :
        a \in {-50, 100, 300}, d \in {"2024-02-10", "2024-05-20"}, ty \in {"expense", "income"}}

ForecastBudgets == {-100, 0, 100, 500}

ForecastDates ==
    {[year |-> 2024, month |-> 2, day |-> 29], [year |-> 2024, month |-> 2, day |-> 1],
     [year |-> 2024, month |-> 5, day |-> 20], [year |-> 2023, month |-> 2, day |-> 28]}

InitBreakdown ==
    /\ transactions \in SeqsUpTo(BreakdownTransactions, MaxBreakdownTx)
    /\ period \in Periods
    /\ breakdown = <<>>
    /\ insights = <<>>
    /\ called = ""
    /\ IdleClassify
    /\ IdleForecast
    /\ IdleStore
    /\ IdleAi

InitInsights ==
    /\ transactions \in SeqsUpTo(InsightTransactions, MaxTransactions)
    /\ period = ""
    /\ breakdown = <<>>
    /\ insights = <<>>
    /\ called = ""
    /\ IdleClassify
    /\ IdleForecast
    /\ IdleStore
    /\ IdleAi

InitClassify ==
    /\ transaction \in {Transaction("1", "t", a, c, "2024-05-01", n, "expense") :
                            a \in ClassifyAmounts, c \in ClassifyCategories, n \in ClassifyNotes}
    /\ userClassifications \in SeqsUpTo(PriorClassifications, MaxHistory)
    /\ classified = <<>>
    /\ called = ""
    /\ IdleAnalytics
    /\ IdleForecast
    /\ IdleStore
    /\ IdleAi

InitForecast ==
    /\ transactions \in SeqsUpTo(ForecastTransactions, MaxForecastTx)
    /\ monthlyBudget \in ForecastBudgets
    /\ targetDate \in ForecastDates
    /\ forecast = <<>>
    /\ period = ""
    /\ breakdown = <<>>
    /\ insights = <<>>
    /\ called = ""
    /\ IdleClassify
    /\ IdleStore
    /\ IdleAi

CallCalculateCategoryBreakdown ==
    /\ called = ""
    /\ called' = "calculateCategoryBreakdown"
    /\ breakdown' = calculateCategoryBreakdown(transactions, period)
    /\ UNCHANGED <<transactions, period, insights, classifyVars, forecastVars, storeVars, aiVars>>

CallGenerateSpendingInsights ==
    /\ called = ""
    /\ called' = "generateSpendingInsights"
    /\ insights' = generateSpendingInsights(transactions)
    /\ UNCHANGED <<transactions, period, breakdown, classifyVars, forecastVars, storeVars, aiVars>>

CallClassifyTransaction ==
    /\ called = ""
    /\ called' = "classifyTransaction"
    /\ classified' = <<classifyTransaction(transaction, userClassifications)>>
    /\ UNCHANGED <<analyticsVars, transaction, userClassifications, forecastVars, storeVars, aiVars>>

CallCalculateDailyForecast ==
    /\ called = ""
    /\ called' = "calculateDailyForecast"
    /\ forecast' = <<calculateDailyForecast(transactions, monthlyBudget, targetDate)>>
    /\ UNCHANGED <<analyticsVars, classifyVars, monthlyBudget, targetDate, storeVars, aiVars>>

NextBreakdown == CallCalculateCategoryBreakdown

NextInsights == CallGenerateSpendingInsights

NextClassify == CallClassifyTransaction

NextForecast == CallCalculateDailyForecast

SpecBreakdown == InitBreakdown /\ [][NextBreakdown]_vars

SpecInsights == InitInsights /\ [][NextInsights]_vars

SpecClassify == InitClassify /\ [][NextClassify]_vars

SpecForecast == InitForecast /\ [][NextForecast]_vars

\* the categories and the dates getSeasonalFactor is given: one date in every month
SeasonCategories ==
    {"Shopping", "Gifts", "Travel", "ENTERTAINMENT", "Education",
     "Travel Shopping", "Food", ""}

SeasonDates == {[year |-> 2024, month |-> m, day |-> 15] : m \in 1..12}

InitSeason ==
    /\ seasonCategory \in SeasonCategories
    /\ today \in SeasonDates
    /\ seasonalFactor = 0
    /\ IdleBudget
    /\ IdleScreens
    /\ IdleProfiles
    /\ called = ""
    /\ IdleAnalytics
    /\ IdleClassify
    /\ IdleForecast
    /\ IdleStore

CallGetSeasonalFactor ==
    /\ called = ""
    /\ called' = "getSeasonalFactor"
    /\ seasonalFactor' = getSeasonalFactor(seasonCategory, today)
    /\ UNCHANGED <<analyticsVars, classifyVars, forecastVars, storeVars, today, seasonCategory,
                   budgetVars, screenVars, profileVars>>

NextSeason == CallGetSeasonalFactor

SpecSeason == InitSeason /\ [][NextSeason]_vars

(***************************************************************************)
(* src/utils/storage.ts and src/utils/aiStorage.ts over AsyncStorage, and  *)
(* App.tsx's handlers.  An item of AsyncStorage holds JSON text: a JSON    *)
(* array is the sequence of its objects, and a JSON object is the function *)
(* from the names of its properties to their values.                       *)
(***************************************************************************)
TRANSACTIONS == "smartspend_transactions"
CATEGORIES == "smartspend_categories"
CLASSIFICATIONS == "smartspend_ai_classifications"
USER_BUDGETS == "smartspend_ai_user_budgets"
SAVINGS_GOALS == "smartspend_ai_savings_goals"
BUDGET_SUGGESTIONS == "smartspend_ai_budget_suggestions"

StorageKeys ==
    {TRANSACTIONS, CATEGORIES, CLASSIFICATIONS, USER_BUDGETS, SAVINGS_GOALS,
     BUDGET_SUGGESTIONS}

\* the optional properties of a Transaction
TransactionOptional == {"note"}

\* JSON.stringify of an array of objects: a property that is undefined is dropped
JsonStringify(list, optional) ==
    [i \in 1..Len(list) |->
        [k \in {f \in DOMAIN list[i] : ~(f \in optional /\ list[i][f] = <<>>)} |-> list[i][k]]]

\* JSON.parse of such text: a property that is missing reads as undefined
JsonParse(json, optional) ==
    [i \in 1..Len(json) |->
        [k \in DOMAIN json[i] \cup optional |->
            IF k \in DOMAIN json[i] THEN json[i][k] ELSE <<>>]]

GetterRethrows(item, ok, optional) ==
    [value |-> IF ~ok \/ item = <<>> THEN <<>> ELSE JsonParse(item[1], optional),
     threw |-> ~ok]

\* try { const item = await AsyncStorage.getItem(KEY); return item ? JSON.parse(item) : [] }
\* catch (error) { return [] }; ok says whether getItem succeeded
Getter(item, ok, optional) ==
    [value |-> IF ~ok \/ item = <<>> THEN <<>> ELSE JsonParse(item[1], optional),
     threw |-> FALSE]

\* what getTransactions returns while the store works
StoredTransactions == Getter(storage[TRANSACTIONS], TRUE, TransactionOptional).value

\* saveTransaction: [...existingTransactions, transaction]
AppendTransaction(existing, t) == Append(existing, t)

\* updateTransaction: transactions.map(t => t.id === updatedTransaction.id ? updatedTransaction : t)
ReplaceTransaction(existing, updated) ==
    [i \in 1..Len(existing) |-> IF existing[i].id = updated.id THEN updated ELSE existing[i]]

RemoveTransactionKeepsOnlyId(existing, transactionId) ==
    SelectSeq(existing, LAMBDA t : t.id = transactionId)

\* deleteTransaction: transactions.filter(t => t.id !== transactionId)
RemoveTransaction(existing, transactionId) ==
    SelectSeq(existing, LAMBDA t : t.id # transactionId)

\* the list an operation writes back, or applies to App's state
Mutated(op, arg, list) ==
    IF op = "add" THEN AppendTransaction(list, arg)
    ELSE IF op = "update" THEN ReplaceTransaction(list, arg)
    ELSE RemoveTransaction(list, arg)

\* new Date(date).getTime(), up to a monotone rescaling
DateKey(date) ==
    ParseInt(SubSeq(date, 1, 4)) * 10000 + ParseInt(SubSeq(date, 6, 7)) * 100
        + ParseInt(SubSeq(date, 9, 10))

\* calculateDashboardData, run by App's effect on every change of `transactions`, sorts
\* the state array in place: transactions.sort((a, b) => getTime(b.date) - getTime(a.date))
RecentFirst(list) == SortDesc(list, [i \in 1..Len(list) |-> DateKey(list[i].date)])

\* new Date().toISOString() in the first second of the epoch
IsoString(ms) ==
    "1970-01-01T00:00:00." \o PadStart(NumberToString(ms), 3) \o "Z"

\* pc: where the invocation is; existing: what its getTransactions() returned;
\* readFailed / writeFailed: whether its getItem / setItem failed; threw: whether the
\* storage function threw to the handler; finishedBefore: the invocations that had
\* finished when it started
IdleCall ==
    [pc |-> "idle", op |-> "", arg |-> <<>>, existing |-> <<>>,
     readFailed |-> FALSE, writeFailed |-> FALSE, threw |-> FALSE, finishedBefore |-> {}]

\* a handler has called its storage function, which awaits getTransactions()
Started(p, op, arg) ==
    [calls EXCEPT ![p] =
        [pc |-> "read", op |-> op, arg |-> <<arg>>, existing |-> <<>>,
         readFailed |-> FALSE, writeFailed |-> FALSE, threw |-> FALSE,
         finishedBefore |-> {q \in DOMAIN calls : calls[q].pc = "done"}]]

\* the two transactions saved before the model starts, at milliseconds 1 and 2
Installed ==
    <<[Transaction("1", "Lunch", 5, "Food", "2024-05-01", <<>>, "expense")
          EXCEPT !.createdAt = "1970-01-01T00:00:00.001Z"],
      [Transaction("2", "Bus", 3, "Travel", "2024-05-02", <<"to work">>, "expense")
          EXCEPT !.createdAt = "1970-01-01T00:00:00.002Z"]>>

\* what TransactionForm submits: Omit<Transaction, 'id' | 'createdAt'>
Submissions ==
    {[title |-> "Pay", amount |-> 9, category |-> "Others", date |-> "2024-05-03",
      note |-> <<"may">>, type |-> "income", isNeed |-> TRUE]}

\* the amounts an edit changes a transaction to
EditedAmounts == {8}

Init ==
    /\ \E n \in 0..Len(Installed) :
          /\ storage =
                [k \in StorageKeys |->
                    IF k = TRANSACTIONS
                    THEN (IF n = 0 THEN <<>>
                          ELSE <<JsonStringify(SubSeq(Installed, 1, n), TransactionOptional)>>)
                    ELSE IF k = CATEGORIES
                    THEN <<JsonStringify(<<[id |-> "1", name |-> "Food",
                                            color |-> "#FF6B6B", icon |-> "restaurant"]>>, {})>>
                    ELSE IF k = SAVINGS_GOALS THEN <<JsonStringify(<<>>, {})>>
                    ELSE <<>>]
          \* loadData: setTransactions(await getTransactions())
          /\ transactions = RecentFirst(SubSeq(Installed, 1, n))
    /\ now = Len(Installed) + 1
    /\ calls = [p \in 1..MaxCalls |-> IdleCall]
    /\ returned = <<>>
    /\ period = ""
    /\ breakdown = <<>>
    /\ insights = <<>>
    /\ called = ""
    /\ IdleClassify
    /\ IdleForecast
    /\ IdleAi

\* a millisecond passes
Tick ==
    /\ now < Len(Installed) + 1 + MaxTicks
    /\ now' = now + 1
    /\ UNCHANGED <<analyticsVars, called, classifyVars, forecastVars, storage, calls, returned, aiVars>>

\* App.handleAddTransaction up to saveTransaction's await of getTransactions()
HandleAddTransaction(p) ==
    /\ calls[p].pc = "idle"
    /\ \E transactionData \in Submissions :
          LET newTransaction ==
                  [k \in DOMAIN transactionData \cup {"id", "createdAt"} |->
                      IF k = "id" THEN NumberToString(now)
                      ELSE IF k = "createdAt" THEN IsoString(now)
                      ELSE transactionData[k]]
          IN  calls' = Started(p, "add", newTransaction)
    /\ UNCHANGED <<analyticsVars, called, classifyVars, forecastVars, storage, now, returned, aiVars>>

\* App.handleUpdateTransaction, for an edit of a transaction the list shows
HandleUpdateTransaction(p) ==
    /\ calls[p].pc = "idle"
    /\ \E i \in 1..Len(transactions) : \E a \in EditedAmounts :
          calls' = Started(p, "update", [transactions[i] EXCEPT !.amount = a])
    /\ UNCHANGED <<analyticsVars, called, classifyVars, forecastVars, storage, now, returned, aiVars>>

\* App.handleDeleteTransaction, for a transaction the list shows
HandleDeleteTransaction(p) ==
    /\ calls[p].pc = "idle"
    /\ \E i \in 1..Len(transactions) :
          calls' = Started(p, "delete", transactions[i].id)
    /\ UNCHANGED <<analyticsVars, called, classifyVars, forecastVars, storage, now, returned, aiVars>>

\* the await of getTransactions() inside saveTransaction / updateTransaction /
\* deleteTransaction resumes; a failed getItem makes it return []
ReadTransactions(p) ==
    /\ calls[p].pc = "read"
    /\ \E ok \in BOOLEAN :
          calls' = [calls EXCEPT
                       ![p].pc = "write",
                       ![p].existing = Getter(storage[TRANSACTIONS], ok, TransactionOptional).value,
                       ![p].readFailed = ~ok]
    /\ UNCHANGED <<analyticsVars, called, classifyVars, forecastVars, storage, now, returned, aiVars>>

\* the await of AsyncStorage.setItem resumes.  When it succeeded the handler goes on
\* to setTransactions (and App's effect sorts the new list); when it failed the
\* storage function rethrows and the handler alerts.
WriteTransactions(p) ==
    /\ calls[p].pc = "write"
    /\ \E ok \in BOOLEAN :
          IF ok
          THEN /\ storage' =
                     [storage EXCEPT ![TRANSACTIONS] =
                         <<JsonStringify(Mutated(calls[p].op, calls[p].arg[1], calls[p].existing),
                                         TransactionOptional)>>]
               /\ transactions' = RecentFirst(Mutated(calls[p].op, calls[p].arg[1], transactions))
               /\ calls' = [calls EXCEPT ![p].pc = "done"]
          ELSE /\ calls' = [calls EXCEPT ![p].pc = "done", ![p].writeFailed = TRUE,
                                          ![p].threw = TRUE]
               /\ UNCHANGED <<storage, transactions>>
    /\ UNCHANGED <<period, breakdown, insights, called, classifyVars, forecastVars, now, returned, aiVars>>

\* a call of one of the getters, with getItem succeeding or failing
CallGetter(fn, key, optional) ==
    /\ \E ok \in BOOLEAN :
          LET r == Getter(storage[key], ok, optional)
          IN  returned' = <<[fn |-> fn, failed |-> ~ok, value |-> r.value, threw |-> r.threw]>>
    /\ UNCHANGED <<analyticsVars, called, classifyVars, forecastVars, storage, now, calls, aiVars>>

GetTransactions == CallGetter("getTransactions", TRANSACTIONS, TransactionOptional)

GetCategories == CallGetter("getCategories", CATEGORIES, {})

GetClassifications == CallGetter("getClassifications", CLASSIFICATIONS, {})

GetUserBudgets == CallGetter("getUserBudgets", USER_BUDGETS, {})

GetSavingsGoals == CallGetter("getSavingsGoals", SAVINGS_GOALS, {})

Next ==
    \/ Tick
    \/ \E p \in 1..MaxCalls :
          \/ HandleAddTransaction(p)
          \/ HandleUpdateTransaction(p)
          \/ HandleDeleteTransaction(p)
          \/ ReadTransactions(p)
          \/ WriteTransactions(p)

\* the handlers, with the getters called at any moment
NextGetters ==
    \/ Next
    \/ GetTransactions
    \/ GetCategories
    \/ GetClassifications
    \/ GetUserBudgets
    \/ GetSavingsGoals

Spec == Init /\ [][Next]_vars

SpecGetters == Init /\ [][NextGetters]_vars

(***************************************************************************)
(* src/services/notifications.ts: BudgetAIService.generateBudgetSuggestions *)
(* A mean the code keeps as a double is the exact fraction <<num, den>>    *)
(* with den > 0; an amount rounded to cents is <<cents, 100>>.  A double    *)
(* can round a product that lies exactly on a half cent the other way; no  *)
(* list of BudgetTransactions gives such a product.                        *)
(***************************************************************************)
\* the UTF-16 code units of the characters of a category, in increasing order
CodeUnitOrder == " 0123456789ABCDEFGHIJKLMNOPQRSTUVWXYZabcdefghijklmnopqrstuvwxyz"

CodeUnit(c) == CHOOSE i \in 1..Len(CodeUnitOrder) : SubSeq(CodeUnitOrder, i, i) = c

RECURSIVE StringLess(_, _)
\* a < b as Array.prototype.sort() compares strings
StringLess(a, b) ==
    IF b = "" THEN FALSE
    ELSE IF a = "" THEN TRUE
    ELSE IF SubSeq(a, 1, 1) = SubSeq(b, 1, 1)
         THEN StringLess(SubSeq(a, 2, Len(a)), SubSeq(b, 2, Len(b)))
         ELSE CodeUnit(SubSeq(a, 1, 1)) < CodeUnit(SubSeq(b, 1, 1))

\* Array.from(new Set(transactions.map(t => t.category))).sort()
getUniqueCategories(txs) ==
    LET set == {txs[i].category : i \in 1..Len(txs)}
        Rank(c) == Cardinality({d \in set : StringLess(d, c)})
    IN  [j \in 1..Cardinality(set) |-> CHOOSE c \in set : Rank(c) = j - 1]

\* cutoffDate = new Date(); cutoffDate.setMonth(cutoffDate.getMonth() - months): a day
\* the earlier month does not have rolls over into the month after it
CutoffDate(date, months) ==
    LET m0 == date.month - 1 - months
        year == IF m0 < 0 THEN date.year - 1 ELSE date.year
        month == (IF m0 < 0 THEN m0 + 12 ELSE m0) + 1
        last == DaysInMonth(year, month)
    IN  IF date.day <= last THEN [year |-> year, month |-> month, day |-> date.day]
        ELSE [year |-> IF month = 12 THEN year + 1 ELSE year,
              month |-> IF month = 12 THEN 1 ELSE month + 1,
              day |-> date.day - last]

\* new Date(t.date) >= cutoffDate: t.date is the midnight that starts its day and
\* cutoffDate carries the time of day of the call, which is later than midnight
OnOrAfterCutoff(date, cutoff) ==
    DateKey(date) > cutoff.year * 10000 + cutoff.month * 100 + cutoff.day

\* calculateRecentAverage, 0 being <<0, 1>>
RecentAverageOf(recentTransactions) ==
    IF Len(recentTransactions) = 0 THEN <<0, 1>>
    ELSE <<SumAmounts(recentTransactions), Len(recentTransactions)>>

calculateRecentAverage(txs, months, date) ==
    RecentAverageOf(
        SelectSeq(txs, LAMBDA t : OnOrAfterCutoff(t.date, CutoffDate(date, months))))

RECURSIVE SumSquaredDeviations(_, _, _)
\* the sum over the amounts a of (n * a - sum)^2, which is n^2 times the sum of the
\* squared deviations from the mean
SumSquaredDeviations(amounts, n, sum) ==
    IF amounts = <<>> THEN 0
    ELSE SumSquaredDeviations(SubSeq(amounts, 1, Len(amounts) - 1), n, sum)
            + (n * amounts[Len(amounts)] - sum) * (n * amounts[Len(amounts)] - sum)

\* standardDeviation / mean > 0.5 for n amounts of the given sum: for a positive mean
\* it is 4 * variance > mean^2; a zero mean gives Infinity (or NaN when every amount
\* is 0), a negative mean a ratio that is not positive
RatioAboveHalf(amounts, n, sum) ==
    IF sum > 0 THEN 4 * SumSquaredDeviations(amounts, n, sum) > n * sum * sum
    ELSE IF sum = 0 THEN SumSquaredDeviations(amounts, n, sum) > 0
    ELSE FALSE

\* calculateVolatility(amounts) > 0.5
VolatilityAboveHalf(txs) ==
    Len(txs) >= 2 /\ RatioAboveHalf(Amounts(txs), Len(txs), SumAmounts(txs))

\* num / den compared with 0.1 and -0.1: 1 when above 0.1, -1 when below -0.1, else 0
TenthSign(num, den) ==
    IF den > 0
    THEN (IF 10 * num > den THEN 1 ELSE IF 10 * num < 0 - den THEN -1 ELSE 0)
    ELSE (IF 10 * num < den THEN 1 ELSE IF 10 * num > 0 - den THEN -1 ELSE 0)

\* (secondHalfAverage - firstHalfAverage) / firstHalfAverage compared with 0.1 and
\* -0.1, for the sums of the two halves and the length of the first; 0 when
\* firstHalfAverage is 0
HalvesTrend(first, second, half, n) ==
    IF first = 0 THEN 0
    ELSE TenthSign(second * half - first * (n - half), first * (n - half))

\* the trend of a list sorted by date
SortedTrend(sortedTransactions, half) ==
    HalvesTrend(SumAmounts(SubSeq(sortedTransactions, 1, half)),
                SumAmounts(SubSeq(sortedTransactions, half + 1, Len(sortedTransactions))),
                half, Len(sortedTransactions))

\* calculateTrend(transactions) compared with 0.1 and -0.1: 1 when the trend is above
\* 0.1, -1 when it is below -0.1, 0 otherwise
TrendSign(txs) ==
    IF Len(txs) < 2 THEN 0
    ELSE SortedTrend(SortDesc(txs, [i \in 1..Len(txs) |-> 0 - DateKey(txs[i].date)]),
                     Len(txs) \div 2)

\* recentAverage || average
RecentOrAverage(recentAverage, average) ==
    IF recentAverage[1] # 0 THEN recentAverage ELSE average

\* the fraction f times n / d
Times(f, n, d) == <<f[1] * n, f[2] * d>>

\* Math.round(f * 100) / 100 of a fraction
RoundFraction(f) == RoundToCents(f[1], f[2])

\* the numerator, over 10, of the factor for a trend: 1.1 upward, 0.9 downward
TrendTenths(trend) == IF trend = 1 THEN 11 ELSE IF trend = -1 THEN 9 ELSE 10

\* suggestedAmount before it is rounded
Adjusted(cat, txs, date) ==
    Times(Times(Times(RecentOrAverage(calculateRecentAverage(txs, 3, date),
                                      <<SumAmounts(txs), Len(txs)>>),
                      IF VolatilityAboveHalf(txs) THEN 12 ELSE 10, 10),
                TrendTenths(TrendSign(txs)), 10),
          getSeasonalFactor(cat, date), 100)

\* reasoning and createdAt are left out
analyzeCategorySpending(cat, txs, date) ==
    IF Len(txs) = 0
    THEN [category |-> cat, suggestedAmount |-> <<0, 100>>,
          currentAverage |-> <<0, 100>>, accepted |-> FALSE]
    ELSE [category |-> cat,
          suggestedAmount |-> RoundFraction(Adjusted(cat, txs, date)),
          currentAverage |-> RoundToCents(SumAmounts(txs), Len(txs)),
          accepted |-> FALSE]

\* existingBudgets.find(b => b.category === category) is defined
HasBudget(budgets, cat) == \E i \in 1..Len(budgets) : budgets[i].category = cat

\* suggestions.sort((a, b) => b.suggestedAmount - a.suggestedAmount)
SortBySuggestedAmount(list) ==
    SortDesc(list, [i \in 1..Len(list) |-> list[i].suggestedAmount[1]])

\* the loop over the categories: a suggestion is pushed for each category without an
\* existing budget
SuggestionsFor(categories, txs, budgets, date) ==
    SelectSeq([i \in 1..Len(categories) |->
                  analyzeCategorySpending(categories[i],
                      SelectSeq(txs, LAMBDA t : t.category = categories[i]), date)],
              LAMBDA sg : ~HasBudget(budgets, sg.category))

generateBudgetSuggestions(txs, budgets, date) ==
    SortBySuggestedAmount(SuggestionsFor(getUniqueCategories(txs), txs, budgets, date))

\* the lists generateBudgetSuggestions is given: three categories, old and recent
\* dates, equal and unequal amounts, a zero amount
BudgetTransactions ==
    {Transaction("1", "t", a, c, d, <<>>, "expense") :
        a \in {10, 50}, c \in {"Food", "Shopping"}, d \in {"2024-01-10", "2024-08-01"}}
    \cup {Transaction("1", "t", 25, "Travel", "2024-08-01", <<>>, "expense"),
          Transaction("1", "t", 0, "Travel", "2024-01-10", <<>>, "expense")}

\* a monthly UserBudget; the amount is <<cents, 100>>
UserBudget(id, cat, amount, at) ==
    [id |-> id, category |-> cat, amount |-> amount, period |-> "monthly",
     createdAt |-> at, updatedAt |-> at]

\* the existing budgets it is given
BudgetLists ==
    {<<>>, <<UserBudget("1", "Food", <<3000, 100>>, "")>>,
     <<UserBudget("1", "Shopping", <<3000, 100>>, ""),
       UserBudget("2", "Monthly Budget", <<10000, 100>>, "")>>}

\* the days it is called on: in January, at the end of May (three months earlier is
\* February the 31st, which is March the 2nd) and in August
BudgetDates ==
    {[year |-> 2024, month |-> 1, day |-> 15], [year |-> 2024, month |-> 5, day |-> 31],
     [year |-> 2024, month |-> 8, day |-> 15]}

InitBudget ==
    /\ transactions \in SeqsUpTo(BudgetTransactions, MaxBudgetTx)
    /\ existingBudgets \in BudgetLists
    /\ today \in BudgetDates
    /\ budgetSuggestions = <<>>
    /\ period = ""
    /\ breakdown = <<>>
    /\ insights = <<>>
    /\ called = ""
    /\ IdleClassify
    /\ IdleForecast
    /\ IdleStore
    /\ IdleSeason
    /\ IdleScreens
    /\ IdleProfiles

CallGenerateBudgetSuggestions ==
    /\ called = ""
    /\ called' = "generateBudgetSuggestions"
    /\ budgetSuggestions' = generateBudgetSuggestions(transactions, existingBudgets, today)
    /\ UNCHANGED <<analyticsVars, classifyVars, forecastVars, storeVars, today, seasonVars,
                   existingBudgets, screenVars, profileVars>>

NextBudget == CallGenerateBudgetSuggestions

SpecBudget == InitBudget /\ [][NextBudget]_vars

(***************************************************************************)
(* src/components/aiFeatures/BudgetSuggestions.tsx over src/utils/aiStorage *)
(* Each handler is one step; each of its AsyncStorage accesses succeeds or *)
(* fails.                                                                  *)
(***************************************************************************)
\* what getBudgetSuggestions and getUserBudgets return while the store works
StoredSuggestions == Getter(storage[BUDGET_SUGGESTIONS], TRUE, {}).value

StoredBudgets == Getter(storage[USER_BUDGETS], TRUE, {}).value

\* saveUserBudget's list: the budget replaces the one with its id, or is pushed
WithUserBudget(budgets, budget) ==
    IF \E i \in 1..Len(budgets) : budgets[i].id = budget.id
    THEN LET existingIndex ==
                 CHOOSE i \in 1..Len(budgets) :
                     /\ budgets[i].id = budget.id
                     /\ \A j \in 1..(i - 1) : budgets[j].id # budget.id
         IN  [budgets EXCEPT ![existingIndex] = budget]
    ELSE Append(budgets, budget)

\* suggestions.map(s => s.category === suggestion.category ? { ...s, accepted: true } : s)
\* on the screen's state `shown`; what the store holds is not read
MarkAccepted(shown, cat) ==
    [i \in 1..Len(shown) |->
        IF shown[i].category = cat THEN [shown[i] EXCEPT !.accepted = TRUE] ELSE shown[i]]

\* filter(s => !s.accepted)
Pending(list) == SelectSeq(list, LAMBDA sg : ~sg.accepted)

\* the amounts a suggestion is customised to, <<cents, 100>>
CustomAmounts == {<<1500, 100>>}

\* the transactions the screen is given
ScreenTransactions ==
    {Transaction("1", "Lunch", 10, "Food", "2024-08-01", <<>>, "expense"),
     Transaction("2", "Shoes", 50, "Shopping", "2024-08-02", <<>>, "expense"),
     Transaction("3", "Train", 25, "Travel", "2024-08-03", <<>>, "expense")}

InitSuggestions ==
    /\ transactions \in SeqsUpTo(ScreenTransactions, MaxScreenTx)
    /\ storage = [k \in StorageKeys |-> <<>>]
    /\ today = [year |-> 2024, month |-> 8, day |-> 15]
    /\ now = Len(Installed) + 1
    /\ calls = <<>>
    /\ returned = <<>>
    /\ suggestions = <<>>
    /\ screenCall = <<>>
    /\ IdleGoals
    /\ IdleBadges
    /\ IdleProfiles
    /\ period = ""
    /\ breakdown = <<>>
    /\ insights = <<>>
    /\ called = ""
    /\ IdleClassify
    /\ IdleForecast
    /\ IdleSeason
    /\ IdleBudget

LoadCall(threw) ==
    [fn |-> "loadSuggestions", category |-> "", amount |-> <<>>, threw |-> threw]

\* setSuggestions(existingSuggestions.filter(s => !s.accepted))
ShowSuggestions(existingSuggestions) ==
    /\ suggestions' = Pending(existingSuggestions)
    /\ screenCall' = LoadCall(FALSE)

\* await saveBudgetSuggestions(existingSuggestions) of the generated list, then the
\* setSuggestions; a failed write goes to the catch
SaveAndShowSuggestions(generated, okSet) ==
    IF okSet
    THEN /\ storage' = [storage EXCEPT
                           ![BUDGET_SUGGESTIONS] = <<JsonStringify(generated, {})>>]
         /\ ShowSuggestions(generated)
    ELSE /\ screenCall' = LoadCall(TRUE)
         /\ UNCHANGED <<storage, suggestions>>

\* loadSuggestions once getBudgetSuggestions has returned
LoadedSuggestions(existingSuggestions, okSet) ==
    IF Len(existingSuggestions) = 0 /\ Len(transactions) > 0
    THEN SaveAndShowSuggestions(generateBudgetSuggestions(transactions, <<>>, today), okSet)
    ELSE ShowSuggestions(existingSuggestions) /\ UNCHANGED storage

\* loadSuggestions, run when the screen mounts
LoadSuggestions ==
    /\ \E okGet, okSet \in BOOLEAN :
          LoadedSuggestions(Getter(storage[BUDGET_SUGGESTIONS], okGet, {}).value, okSet)
    /\ UNCHANGED <<analyticsVars, called, classifyVars, forecastVars, now, calls, returned,
                   today, seasonVars, budgetVars, goalVars, badgeVars, profileVars>>

\* the body handleAcceptSuggestion and handleSaveCustomBudget share: saveUserBudget,
\* then saveBudgetSuggestions of the mapped state, then setSuggestions; a failed write
\* throws to the handler's catch, which leaves the rest undone
CreateBudget(fn, suggestion, amount) ==
    /\ \E okGet, okSetBudget, okSetSuggestions \in BOOLEAN :
          LET budget == UserBudget(NumberToString(now), suggestion.category, amount,
                                   IsoString(now))
              budgets == Getter(storage[USER_BUDGETS], okGet, {}).value
              updatedSuggestions ==
                  MarkAccepted(suggestions, suggestion.category)
              call == [fn |-> fn, category |-> suggestion.category, amount |-> amount,
                       threw |-> ~(okSetBudget /\ okSetSuggestions)]
          IN  /\ screenCall' = call
              /\ IF ~okSetBudget THEN UNCHANGED <<storage, suggestions>>
                 ELSE IF ~okSetSuggestions
                 THEN /\ storage' =
                            [storage EXCEPT ![USER_BUDGETS] =
                                <<JsonStringify(WithUserBudget(budgets, budget), {})>>]
                      /\ UNCHANGED suggestions
                 ELSE /\ storage' =
                            [storage EXCEPT
                                ![USER_BUDGETS] =
                                    <<JsonStringify(WithUserBudget(budgets, budget), {})>>,
                                ![BUDGET_SUGGESTIONS] =
                                    <<JsonStringify(updatedSuggestions, {})>>]
                      /\ suggestions' = Pending(updatedSuggestions)
    /\ UNCHANGED <<analyticsVars, called, classifyVars, forecastVars, now, calls, returned,
                   today, seasonVars, budgetVars, goalVars, badgeVars, profileVars>>

\* handleAcceptSuggestion for the i-th suggestion the screen shows
HandleAcceptSuggestion(i) ==
    CreateBudget("handleAcceptSuggestion", suggestions[i], suggestions[i].suggestedAmount)

\* handleCustomizeSuggestion for the i-th suggestion, then handleSaveCustomBudget with
\* a valid amount
HandleSaveCustomBudget(i, amount) ==
    CreateBudget("handleSaveCustomBudget", suggestions[i], amount)

NextSuggestions ==
    \/ Tick
    \/ LoadSuggestions
    \/ \E i \in 1..Len(suggestions) : HandleAcceptSuggestion(i)
    \/ \E i \in 1..Len(suggestions) : \E amount \in CustomAmounts :
          HandleSaveCustomBudget(i, amount)

SpecSuggestions == InitSuggestions /\ [][NextSuggestions]_vars

(***************************************************************************)
(* src/components/aiFeatures/SavingsGoals.tsx over src/utils/aiStorage     *)
(* The form's amounts are runs of digits and its deadlines are dates of    *)
(* January 1970, the month the clock is in; weeklyTarget is <<cents, 100>>. *)
(* Each handler is one step; each of its AsyncStorage accesses succeeds or *)
(* fails.                                                                  *)
(***************************************************************************)
\* what getSavingsGoals returns while the store works
StoredGoals == Getter(storage[SAVINGS_GOALS], TRUE, {}).value

\* 1000 * 60 * 60 * 24, the milliseconds of a day
DayMs == 1000 * 60 * 60 * 24

\* 1000 * 60 * 60 * 24 * 7
WeekMs == DayMs * 7

\* whether new Date(text) is a date: the text is YYYY-MM-DD
IsDate(text) ==
    /\ Len(text) = 10
    /\ SubSeq(text, 5, 5) = "-"
    /\ SubSeq(text, 8, 8) = "-"

\* new Date(text).getTime() of a date of January 1970: UTC midnight of its day
DateTime(text) == (ParseInt(SubSeq(text, 9, 10)) - 1) * DayMs

\* Math.ceil(ms / WeekMs)
CeilWeeks(ms) == IF ms % WeekMs = 0 THEN ms \div WeekMs ELSE ms \div WeekMs + 1

\* Math.max(1, Math.ceil((deadline.getTime() - now.getTime()) / WeekMs))
WeeksLeft(deadline, nowMs) ==
    IF CeilWeeks(DateTime(deadline) - nowMs) > 1
    THEN CeilWeeks(DateTime(deadline) - nowMs)
    ELSE 1

\* Math.round((targetAmount / weeksLeft) * 100) / 100
calculateWeeklyTarget(targetAmount, deadline, nowMs) ==
    RoundToCents(targetAmount, WeeksLeft(deadline, nowMs))

\* the goal handleAddGoal builds
SavingsGoal(id, title, targetAmount, deadline, at, weeklyTarget) ==
    [id |-> id, title |-> title, targetAmount |-> targetAmount, currentAmount |-> 0,
     deadline |-> deadline, createdAt |-> at, isActive |-> TRUE,
     weeklyTarget |-> weeklyTarget, lastUpdated |-> at]

\* saveSavingsGoal's list: the goal replaces the one with its id, or is pushed
WithSavingsGoal(list, goal) == WithUserBudget(list, goal)

\* goals.map(g => g.id === goalId ? { ...g, currentAmount, lastUpdated } : g), of
\* updateSavingsGoalProgress and of handleUpdateProgress alike
WithProgress(list, goalId, currentAmount, at) ==
    [i \in 1..Len(list) |->
        IF list[i].id = goalId
        THEN [list[i] EXCEPT !.currentAmount = currentAmount, !.lastUpdated = at]
        ELSE list[i]]

\* goals.filter(g => g.id !== goalId)
WithoutGoal(list, goalId) == SelectSeq(list, LAMBDA g : g.id # goalId)

\* what the form's fields hold
GoalTitles == {"Trip", ""}
GoalAmounts == {"100", "250", "0"}
GoalDeadlines == {"1970-01-08", "1970-01-10", "1970-01-01", "soon"}
ProgressAmounts == {"40", "100", ""}

\* what the SavingsGoals screen's handlers leave alone
BesidesGoals ==
    <<analyticsVars, called, classifyVars, forecastVars, now, calls, returned, today,
      seasonVars, budgetVars, suggestions, badgeVars, profileVars>>

InitGoals ==
    /\ storage = [k \in StorageKeys |-> <<>>]
    /\ now = Len(Installed) + 1
    /\ calls = <<>>
    /\ returned = <<>>
    /\ today = <<>>
    /\ called = ""
    /\ IdleAnalytics
    /\ IdleClassify
    /\ IdleForecast
    /\ IdleSeason
    /\ IdleBudget
    /\ IdleScreens
    /\ IdleProfiles

\* a handler of the screen ended showing `alert` (<<>>: none)
GoalCall(fn, alert) == [fn |-> fn, alert |-> alert]

\* loadGoals, run when the screen mounts
LoadGoals ==
    /\ \E okGet \in BOOLEAN : goals' = Getter(storage[SAVINGS_GOALS], okGet, {}).value
    /\ screenCall' = GoalCall("loadGoals", <<>>)
    /\ UNCHANGED <<storage, BesidesGoals>>

\* handleAddGoal's try block: saveSavingsGoal(goal), then setGoals(prev => [...prev, goal])
CreateGoal(goal, existing, okSet) ==
    IF okSet
    THEN /\ storage' = [storage EXCEPT
                           ![SAVINGS_GOALS] =
                               <<JsonStringify(WithSavingsGoal(existing, goal), {})>>]
         /\ goals' = Append(goals, goal)
         /\ screenCall' = GoalCall("handleAddGoal", <<"Savings goal created!">>)
    ELSE /\ screenCall' =
                GoalCall("handleAddGoal", <<"Failed to create goal. Please try again.">>)
         /\ UNCHANGED <<storage, goals>>

\* handleAddGoal with the form holding newGoalTitle, newGoalAmount, newGoalDeadline
HandleAddGoal(newGoalTitle, newGoalAmount, newGoalDeadline) ==
    /\ Len(goals) < MaxGoals
    /\ IF newGoalTitle = "" \/ newGoalAmount = "" \/ newGoalDeadline = ""
       THEN /\ screenCall' = GoalCall("handleAddGoal", <<"Please fill in all fields">>)
            /\ UNCHANGED <<storage, goals>>
       ELSE IF ParseInt(newGoalAmount) <= 0
       THEN /\ screenCall' = GoalCall("handleAddGoal", <<"Please enter a valid amount">>)
            /\ UNCHANGED <<storage, goals>>
       ELSE IF ~IsDate(newGoalDeadline) \/ DateTime(newGoalDeadline) <= now
       THEN /\ screenCall' =
                   GoalCall("handleAddGoal", <<"Please enter a valid future date">>)
            /\ UNCHANGED <<storage, goals>>
       ELSE \E okGet, okSet \in BOOLEAN :
               CreateGoal(SavingsGoal(NumberToString(now), newGoalTitle,
                                      ParseInt(newGoalAmount), newGoalDeadline,
                                      IsoString(now),
                                      calculateWeeklyTarget(ParseInt(newGoalAmount),
                                                            newGoalDeadline, now)),
                          Getter(storage[SAVINGS_GOALS], okGet, {}).value, okSet)
    /\ UNCHANGED BesidesGoals

\* handleUpdateProgress's try block: updateSavingsGoalProgress, then the same map on
\* the screen's state
UpdateProgress(selectedGoal, newCurrentAmount, existing, okSet) ==
    IF okSet
    THEN /\ storage' = [storage EXCEPT
                           ![SAVINGS_GOALS] =
                               <<JsonStringify(WithProgress(existing, selectedGoal.id,
                                                            newCurrentAmount,
                                                            IsoString(now)), {})>>]
         /\ goals' = WithProgress(goals, selectedGoal.id, newCurrentAmount, IsoString(now))
         /\ screenCall' =
                GoalCall("handleUpdateProgress",
                         IF newCurrentAmount >= selectedGoal.targetAmount
                         THEN <<"You've reached your savings goal!">>
                         ELSE <<"Progress updated!">>)
    ELSE /\ screenCall' = GoalCall("handleUpdateProgress",
                                   <<"Failed to update progress. Please try again.">>)
         /\ UNCHANGED <<storage, goals>>

\* handleUpdateProgress with the i-th goal shown selected and the form holding
\* progressAmount
HandleUpdateProgress(i, progressAmount) ==
    /\ IF progressAmount = ""
       THEN /\ screenCall' = GoalCall("handleUpdateProgress", <<>>)
            /\ UNCHANGED <<storage, goals>>
       ELSE /\ goals[i].currentAmount + ParseInt(progressAmount) <= MaxSaved
            /\ \E okGet, okSet \in BOOLEAN :
                  UpdateProgress(goals[i], goals[i].currentAmount + ParseInt(progressAmount),
                                 Getter(storage[SAVINGS_GOALS], okGet, {}).value, okSet)
    /\ UNCHANGED BesidesGoals

\* handleDeleteGoal of the i-th goal shown, confirmed with 'Delete'
HandleDeleteGoal(i) ==
    /\ \E okGet, okSet \in BOOLEAN :
          IF okSet
          THEN /\ storage' =
                     [storage EXCEPT
                         ![SAVINGS_GOALS] =
                             <<JsonStringify(
                                   WithoutGoal(Getter(storage[SAVINGS_GOALS], okGet, {}).value,
                                               goals[i].id), {})>>]
               /\ goals' = WithoutGoal(goals, goals[i].id)
               /\ screenCall' = GoalCall("handleDeleteGoal", <<>>)
          ELSE /\ screenCall' = GoalCall("handleDeleteGoal",
                                         <<"Failed to delete goal. Please try again.">>)
               /\ UNCHANGED <<storage, goals>>
    /\ UNCHANGED BesidesGoals

NextGoals ==
    \/ Tick
    \/ LoadGoals
    \/ \E newGoalTitle \in GoalTitles : \E newGoalAmount \in GoalAmounts :
          \E newGoalDeadline \in GoalDeadlines :
              HandleAddGoal(newGoalTitle, newGoalAmount, newGoalDeadline)
    \/ \E i \in 1..Len(goals) : \E progressAmount \in ProgressAmounts :
          HandleUpdateProgress(i, progressAmount)
    \/ \E i \in 1..Len(goals) : HandleDeleteGoal(i)

SpecGoals == InitGoals /\ [][NextGoals]_vars

(***************************************************************************)
(* src/components/aiFeatures/ClassificationBadge.tsx over src/utils/aiStorage *)
(* TransactionsList mounts a badge for each transaction it renders, so the *)
(* same transaction may have several badges over time; a badge's handlers  *)
(* run up to each await of AsyncStorage, where those of other badges may   *)
(* run.  A badge has one handler in flight at a time.                      *)
(***************************************************************************)
\* what getClassifications returns while the store works
StoredClassifications == Getter(storage[CLASSIFICATIONS], TRUE, {}).value

\* classifications.find(c => c.transactionId === transactionId) || null
FindClassification(classifications, transactionId) ==
    IF \E i \in 1..Len(classifications) : classifications[i].transactionId = transactionId
    THEN <<classifications[CHOOSE i \in 1..Len(classifications) :
                               /\ classifications[i].transactionId = transactionId
                               /\ \A j \in 1..(i - 1) :
                                      classifications[j].transactionId # transactionId]>>
    ELSE <<>>

\* saveClassification's list: the classification replaces the one of its transaction,
\* or is pushed
WithClassification(classifications, classification) ==
    IF \E i \in 1..Len(classifications) :
           classifications[i].transactionId = classification.transactionId
    THEN [classifications EXCEPT
              ![CHOOSE i \in 1..Len(classifications) :
                    /\ classifications[i].transactionId = classification.transactionId
                    /\ \A j \in 1..(i - 1) :
                           classifications[j].transactionId # classification.transactionId]
                  = classification]
    ELSE Append(classifications, classification)

\* the ClassifiedTransaction classifyTransaction returns at `at`
ClassifiedAt(c, at) ==
    [transactionId |-> c.transactionId, classification |-> c.classification,
     confidence |-> c.confidence, aiGenerated |-> c.aiGenerated, classifiedAt |-> at]

\* loadClassification's catch: the default unclassified state
DefaultClassification(transactionId, at) ==
    [transactionId |-> transactionId, classification |-> "unclassified", confidence |-> 0,
     aiGenerated |-> FALSE, classifiedAt |-> at]

\* { ...classification, classification: newClassification, aiGenerated: false, classifiedAt }
UpdatedClassification(classification, newClassification, at) ==
    [classification EXCEPT !.classification = newClassification, !.aiGenerated = FALSE,
                           !.classifiedAt = at]

\* the transactions the list renders, and the labels the modal offers
BadgeTransactions ==
    {Transaction("1", "Lunch", 10, "Food", "2024-08-01", <<>>, "expense"),
     Transaction("2", "Cinema", 50, "Entertainment", "2024-08-02", <<>>, "expense")}

ModalOptions == {"need", "want"}

\* a badge as it mounts: useState, then the effect's loadClassification up to the
\* await in getClassificationByTransactionId.  fn: the handler in flight or last run;
\* pc: the await it is at ("done": none); saving: the record it is to save;
\* list: the array saveClassification is to write; threw: saveClassification threw
Badge(t) ==
    [transaction |-> t, classification |-> <<>>, isLoading |-> TRUE,
     fn |-> "loadClassification", newClassification |-> "", pc |-> "find",
     saving |-> <<>>, list |-> <<>>, threw |-> FALSE]

\* what the badges' handlers leave alone
BesidesBadges ==
    <<analyticsVars, called, classifyVars, forecastVars, now, calls, returned, today,
      seasonVars, budgetVars, suggestions, screenCall, goalVars, profileVars>>

InitBadges ==
    /\ storage = [k \in StorageKeys |-> <<>>]
    /\ now = Len(Installed) + 1
    /\ calls = <<>>
    /\ returned = <<>>
    /\ today = <<>>
    /\ called = ""
    /\ IdleAnalytics
    /\ IdleClassify
    /\ IdleForecast
    /\ IdleSeason
    /\ IdleBudget
    /\ IdleScreens
    /\ IdleProfiles

\* TransactionsList renders transaction t: a badge mounts and its effect runs
MountBadge(t) ==
    /\ Len(badges) < MaxBadges
    /\ badges' = Append(badges, Badge(t))
    /\ UNCHANGED <<storage, BesidesBadges>>

\* loadClassification once getClassificationByTransactionId has returned `existing`:
\* show it, or classify and call saveClassification up to its getClassifications
Found(b, existing) ==
    IF existing # <<>>
    THEN badges' = [badges EXCEPT ![b].classification = existing, ![b].isLoading = FALSE,
                                  ![b].pc = "done"]
    ELSE badges' = [badges EXCEPT
                       ![b].saving =
                           <<ClassifiedAt(classifyTransaction(badges[b].transaction, <<>>),
                                          IsoString(now))>>,
                       ![b].pc = "get"]

FindExisting(b) ==
    /\ badges[b].pc = "find"
    /\ \E okGet \in BOOLEAN :
          Found(b, FindClassification(Getter(storage[CLASSIFICATIONS], okGet, {}).value,
                                      badges[b].transaction.id))
    /\ UNCHANGED <<storage, BesidesBadges>>

\* handleClassificationChange(newClassification) of a badge that shows a
\* classification, up to saveClassification's getClassifications
HandleClassificationChange(b, newClassification) ==
    /\ badges[b].pc = "done"
    /\ badges' = [badges EXCEPT
                     ![b].fn = "handleClassificationChange",
                     ![b].newClassification = newClassification,
                     ![b].saving = <<UpdatedClassification(badges[b].classification[1],
                                                           newClassification,
                                                           IsoString(now))>>,
                     ![b].pc = "get",
                     ![b].threw = FALSE]
    /\ UNCHANGED <<storage, BesidesBadges>>

\* saveClassification from the return of getClassifications to its setItem
ReadClassifications(b) ==
    /\ badges[b].pc = "get"
    /\ \E okGet \in BOOLEAN :
          badges' = [badges EXCEPT
                        ![b].list =
                            WithClassification(
                                Getter(storage[CLASSIFICATIONS], okGet, {}).value,
                                badges[b].saving[1]),
                        ![b].pc = "set"]
    /\ UNCHANGED <<storage, BesidesBadges>>

\* the state the handler sets when saveClassification throws: loadClassification's
\* catch shows the default; handleClassificationChange's catch keeps what is shown
AfterThrow(b) ==
    IF badges[b].fn = "loadClassification"
    THEN <<DefaultClassification(badges[b].transaction.id, IsoString(now))>>
    ELSE badges[b].classification

\* saveClassification's setItem completes or fails, and the handler runs to its end
WriteClassifications(b) ==
    /\ badges[b].pc = "set"
    /\ \E okSet \in BOOLEAN :
          IF okSet
          THEN /\ storage' = [storage EXCEPT
                                 ![CLASSIFICATIONS] = <<JsonStringify(badges[b].list, {})>>]
               /\ badges' = [badges EXCEPT ![b].classification = badges[b].saving,
                                           ![b].isLoading = FALSE, ![b].pc = "done",
                                           ![b].list = <<>>]
          ELSE /\ badges' = [badges EXCEPT ![b].classification = AfterThrow(b),
                                           ![b].isLoading = FALSE, ![b].pc = "done",
                                           ![b].list = <<>>, ![b].threw = TRUE]
               /\ UNCHANGED storage
    /\ UNCHANGED BesidesBadges

NextBadges ==
    \/ Tick
    \/ \E t \in BadgeTransactions : MountBadge(t)
    \/ \E b \in 1..Len(badges) : FindExisting(b)
    \/ \E b \in 1..Len(badges) : \E newClassification \in ModalOptions :
          HandleClassificationChange(b, newClassification)
    \/ \E b \in 1..Len(badges) : ReadClassifications(b)
    \/ \E b \in 1..Len(badges) : WriteClassifications(b)

SpecBadges == InitBadges /\ [][NextBadges]_vars

(***************************************************************************)
(* src/services/profileManager.ts over src/utils/routineStorage.ts and     *)
(* src/utils/storage.ts.  Each method is one step; each of its AsyncStorage *)
(* accesses succeeds or fails.  A transaction's profileId is <<>> when the *)
(* property is absent and <<id>> otherwise.  The methods are followed      *)
(* within one millisecond of the clock.                                    *)
(***************************************************************************)
PROFILES == "smartspend_profiles"
ACTIVE_PROFILE == "smartspend_active_profile"

RECURRING_EXPENSES == "smartspend_recurring_expenses"

RoutineKeys == {PROFILES, ACTIVE_PROFILE, RECURRING_EXPENSES}

Profile(id, name, type, color, icon, isActive, createdAt) ==
    [id |-> id, name |-> name, type |-> type, color |-> color, icon |-> icon,
     isActive |-> isActive, createdAt |-> createdAt]

\* routineStorage's DEFAULT_PROFILES, created when the module loads
DEFAULT_PROFILES ==
    <<Profile("personal", "Personal", "personal", "#007AFF", "person", TRUE, IsoString(0))>>

\* ProfileManager.getDefaultProfiles()
getDefaultProfiles(at) ==
    <<Profile("personal", "Personal", "personal", "#007AFF", "person", TRUE, at),
      Profile("business", "Business", "business", "#34C759", "briefcase", FALSE, at),
      Profile("shared", "Shared Wallet", "shared", "#FF9500", "people", FALSE, at)>>

\* getProfiles: data ? JSON.parse(data) : DEFAULT_PROFILES, and DEFAULT_PROFILES when
\* getItem fails
getProfiles(item, ok) ==
    IF ~ok \/ item = <<>> THEN DEFAULT_PROFILES ELSE JsonParse(item[1], {})

\* getActiveProfile: data || 'personal'
getActiveProfile(item, ok) ==
    IF ~ok \/ item = <<>> \/ item = <<"">> THEN "personal" ELSE item[1]

\* the profiles stored, read while the store works
ExistingProfiles == getProfiles(routineStorage[PROFILES], TRUE)

ProfileIds(profiles) == {profiles[i].id : i \in 1..Len(profiles)}

\* the optional properties of a transaction ProfileManager has saved
ProfileTransactionOptional == {"note", "profileId"}

\* { ...transaction, profileId: this.currentProfileId }
ProfileTransaction(t, profileId) ==
    [k \in DOMAIN t \cup {"profileId"} |-> IF k = "profileId" THEN <<profileId>> ELSE t[k]]

\* allTransactions.filter(t => t.profileId === this.currentProfileId || !t.profileId)
OfProfile(allTransactions, profileId) ==
    SelectSeq(allTransactions, LAMBDA t : t.profileId = <<profileId>> \/ t.profileId = <<>>)

\* profiles.map(p => ({ ...p, isActive: p.id === profileId }))
WithActive(profiles, profileId) ==
    [i \in 1..Len(profiles) |-> [profiles[i] EXCEPT !.isActive = (profiles[i].id = profileId)]]

\* profiles.filter(p => p.id !== profileId)
WithoutProfile(profiles, profileId) == SelectSeq(profiles, LAMBDA p : p.id # profileId)

\* what the profile form submits, and the transactions saved through the manager
NewProfiles ==
    {[name |-> "Work", type |-> "business", color |-> "#007AFF", icon |-> "briefcase",
      isActive |-> FALSE]}

ProfileSubmissions ==
    {Transaction("10", "Paper", 7, "Office", "2024-05-03", <<>>, "expense")}

\* the ids switchProfile and deleteProfile are called with: a profile's, or none's
RequestedIds == ProfileIds(ExistingProfiles) \cup {"business"}

\* a method of the manager returned `result` (<<>>: it threw); readFailed: a getItem
\* of it failed
ProfileCall(fn, result, readFailed) ==
    [fn |-> fn, result |-> result, readFailed |-> readFailed]

\* what the manager's methods leave alone
BesidesProfiles ==
    <<analyticsVars, called, classifyVars, forecastVars, now, calls, today, seasonVars,
      budgetVars, suggestions, goalVars, badgeVars>>

InitProfiles ==
    /\ \E legacy \in {<<>>, SubSeq(Installed, 1, 1)} :
          storage = [k \in StorageKeys |->
                        IF k = TRANSACTIONS /\ legacy # <<>>
                        THEN <<JsonStringify(legacy, TransactionOptional)>>
                        ELSE <<>>]
    /\ routineStorage = [k \in RoutineKeys |-> <<>>]
    /\ currentProfileId = "personal"
    /\ now = Len(Installed) + 1
    /\ calls = <<>>
    /\ returned = <<>>
    /\ today = <<>>
    /\ called = ""
    /\ IdleAnalytics
    /\ IdleClassify
    /\ IdleForecast
    /\ IdleSeason
    /\ IdleBudget
    /\ IdleScreens

\* initializeProfiles once getProfiles has returned existingProfiles
Initialized(existingProfiles, okSet, okGetActive) ==
    IF Len(existingProfiles) = 0 /\ ~okSet
    THEN /\ screenCall' = ProfileCall("initializeProfiles", <<>>, FALSE)
         /\ UNCHANGED <<routineStorage, currentProfileId>>
    ELSE /\ routineStorage' =
               IF Len(existingProfiles) = 0
               THEN [routineStorage EXCEPT
                        ![PROFILES] = <<JsonStringify(getDefaultProfiles(IsoString(now)), {})>>]
               ELSE routineStorage
         /\ currentProfileId' = getActiveProfile(routineStorage[ACTIVE_PROFILE], okGetActive)
         /\ screenCall' = ProfileCall("initializeProfiles", <<>>, ~okGetActive)

InitializeProfiles ==
    /\ \E okGet, okSet, okGetActive \in BOOLEAN :
          Initialized(getProfiles(routineStorage[PROFILES], okGet), okSet, okGetActive)
    /\ UNCHANGED <<storage, returned, BesidesProfiles>>

\* switchProfile once getProfiles has returned profiles
Switched(profileId, profiles, readFailed, okSetProfiles, okSetActive) ==
    IF profileId \notin ProfileIds(profiles) \/ ~okSetProfiles
    THEN /\ screenCall' = ProfileCall("switchProfile", <<FALSE>>, readFailed)
         /\ UNCHANGED <<routineStorage, currentProfileId>>
    ELSE IF ~okSetActive
    THEN /\ routineStorage' =
               [routineStorage EXCEPT
                   ![PROFILES] = <<JsonStringify(WithActive(profiles, profileId), {})>>]
         /\ screenCall' = ProfileCall("switchProfile", <<FALSE>>, readFailed)
         /\ UNCHANGED currentProfileId
    ELSE /\ routineStorage' =
               [routineStorage EXCEPT
                   ![PROFILES] = <<JsonStringify(WithActive(profiles, profileId), {})>>,
                   ![ACTIVE_PROFILE] = <<profileId>>]
         /\ currentProfileId' = profileId
         /\ screenCall' = ProfileCall("switchProfile", <<TRUE>>, readFailed)

SwitchProfile(profileId) ==
    /\ \E okGet, okSetProfiles, okSetActive \in BOOLEAN :
          Switched(profileId, getProfiles(routineStorage[PROFILES], okGet), ~okGet,
                   okSetProfiles, okSetActive)
    /\ UNCHANGED <<storage, returned, BesidesProfiles>>

\* createProfile once getProfiles has returned profiles
Created(newProfile, profiles, readFailed, okSet) ==
    IF okSet
    THEN /\ routineStorage' =
               [routineStorage EXCEPT
                   ![PROFILES] = <<JsonStringify(Append(profiles, newProfile), {})>>]
         /\ screenCall' = ProfileCall("createProfile", <<newProfile>>, readFailed)
    ELSE /\ screenCall' = ProfileCall("createProfile", <<>>, readFailed)
         /\ UNCHANGED routineStorage

CreateProfile(profileData) ==
    /\ Len(ExistingProfiles) < MaxProfiles
    /\ \E okGet, okSet \in BOOLEAN :
          Created(Profile("profile_" \o NumberToString(now), profileData.name,
                          profileData.type, profileData.color, profileData.icon,
                          profileData.isActive, IsoString(now)),
                  getProfiles(routineStorage[PROFILES], okGet), ~okGet, okSet)
    /\ UNCHANGED <<storage, returned, currentProfileId, BesidesProfiles>>

\* deleteProfile once getProfiles has returned profiles
Deleted(profileId, profiles, readFailed, okSet) ==
    IF Len(profiles) <= 1 \/ profileId = currentProfileId \/ ~okSet
    THEN /\ screenCall' = ProfileCall("deleteProfile", <<FALSE>>, readFailed)
         /\ UNCHANGED routineStorage
    ELSE /\ routineStorage' =
               [routineStorage EXCEPT
                   ![PROFILES] = <<JsonStringify(WithoutProfile(profiles, profileId), {})>>]
         /\ screenCall' = ProfileCall("deleteProfile", <<TRUE>>, readFailed)

DeleteProfile(profileId) ==
    /\ \E okGet, okSet \in BOOLEAN :
          Deleted(profileId, getProfiles(routineStorage[PROFILES], okGet), ~okGet, okSet)
    /\ UNCHANGED <<storage, returned, currentProfileId, BesidesProfiles>>

\* saveProfileTransaction: saveTransaction of the transaction tagged with the current
\* profile
SaveProfileTransaction(t) ==
    /\ Len(Getter(storage[TRANSACTIONS], TRUE, ProfileTransactionOptional).value)
           < MaxProfileTx
    /\ \E okGet, okSet \in BOOLEAN :
          IF okSet
          THEN /\ storage' =
                     [storage EXCEPT
                         ![TRANSACTIONS] =
                             <<JsonStringify(
                                   AppendTransaction(
                                       Getter(storage[TRANSACTIONS], okGet,
                                              ProfileTransactionOptional).value,
                                       ProfileTransaction(t, currentProfileId)),
                                   ProfileTransactionOptional)>>]
               /\ screenCall' = ProfileCall("saveProfileTransaction", <<TRUE>>, ~okGet)
          ELSE /\ screenCall' = ProfileCall("saveProfileTransaction", <<>>, ~okGet)
               /\ UNCHANGED storage
    /\ UNCHANGED <<returned, routineStorage, currentProfileId, BesidesProfiles>>

\* getProfileTransactions
GetProfileTransactions ==
    /\ \E okGet \in BOOLEAN :
          /\ returned' = OfProfile(Getter(storage[TRANSACTIONS], okGet,
                                          ProfileTransactionOptional).value,
                                   currentProfileId)
          /\ screenCall' = ProfileCall("getProfileTransactions", <<TRUE>>, ~okGet)
    /\ UNCHANGED <<storage, routineStorage, currentProfileId, BesidesProfiles>>

NextProfiles ==
    \/ InitializeProfiles
    \/ \E profileId \in RequestedIds : SwitchProfile(profileId)
    \/ \E profileData \in NewProfiles : CreateProfile(profileData)
    \/ \E profileId \in RequestedIds : DeleteProfile(profileId)
    \/ \E t \in ProfileSubmissions : SaveProfileTransaction(t)
    \/ GetProfileTransactions

SpecProfiles == InitProfiles /\ [][NextProfiles]_vars

(***************************************************************************)
(* The same methods of ProfileManager, followed await by await: a call     *)
(* runs up to each AsyncStorage access, where other calls may run.         *)
(***************************************************************************)
\* a call of the manager as it starts, up to its await of getProfiles().  pc: the
\* await it is at; profiles: the list it is to save; result: what it returned, <<>>
\* until then and when it threw
ProfileInvocation(fn, arg) ==
    [fn |-> fn, arg |-> arg, pc |-> "getProfiles", profiles |-> <<>>, result |-> <<>>]

InitProfileCalls ==
    /\ storage = [k \in StorageKeys |-> <<>>]
    /\ routineStorage = [k \in RoutineKeys |-> <<>>]
    /\ currentProfileId = "personal"
    /\ now = Len(Installed) + 1
    /\ calls = <<>>
    /\ returned = <<>>
    /\ today = <<>>
    /\ called = ""
    /\ IdleAnalytics
    /\ IdleClassify
    /\ IdleForecast
    /\ IdleSeason
    /\ IdleBudget
    /\ IdleScreens

\* what the calls leave alone
BesidesProfileCalls ==
    <<analyticsVars, called, classifyVars, forecastVars, storage, now, returned, today,
      seasonVars, budgetVars, screenVars>>

\* createProfile, switchProfile or deleteProfile is called
StartProfileCall(fn, arg) ==
    /\ Len(calls) < MaxProfileCalls
    /\ calls' = Append(calls, ProfileInvocation(fn, arg))
    /\ UNCHANGED <<routineStorage, currentProfileId, BesidesProfileCalls>>

\* the call once getProfiles() has returned profiles: createProfile pushes its new
\* profile, switchProfile looks for its target and maps, deleteProfile checks its two
\* guards and filters; each then calls saveProfiles
AfterGetProfiles(call, profiles) ==
    IF call.fn = "createProfile"
    THEN [call EXCEPT
             !.profiles = Append(profiles,
                                 Profile("profile_" \o NumberToString(now), call.arg.name,
                                         call.arg.type, call.arg.color, call.arg.icon,
                                         call.arg.isActive, IsoString(now))),
             !.pc = "saveProfiles"]
    ELSE IF call.fn = "switchProfile"
    THEN IF call.arg \notin ProfileIds(profiles)
         THEN [call EXCEPT !.pc = "done", !.result = <<FALSE>>]
         ELSE [call EXCEPT !.profiles = WithActive(profiles, call.arg),
                           !.pc = "saveProfiles"]
    ELSE IF Len(profiles) <= 1 \/ call.arg = currentProfileId
         THEN [call EXCEPT !.pc = "done", !.result = <<FALSE>>]
         ELSE [call EXCEPT !.profiles = WithoutProfile(profiles, call.arg),
                           !.pc = "saveProfiles"]

\* the await of getProfiles() resumes
ProfilesRead(p) ==
    /\ calls[p].pc = "getProfiles"
    /\ \E okGet \in BOOLEAN :
          calls' = [calls EXCEPT
                       ![p] = AfterGetProfiles(calls[p],
                                               getProfiles(routineStorage[PROFILES], okGet))]
    /\ UNCHANGED <<routineStorage, currentProfileId, BesidesProfileCalls>>

\* the call once saveProfiles has returned: switchProfile goes on to saveActiveProfile,
\* the others return
AfterSaveProfiles(call) ==
    IF call.fn = "switchProfile" THEN [call EXCEPT !.pc = "saveActiveProfile"]
    ELSE [call EXCEPT !.pc = "done", !.result = <<TRUE>>]

\* the call when saveProfiles or saveActiveProfile throws: createProfile rethrows, the
\* others return false
AfterThrownSave(call) ==
    IF call.fn = "createProfile" THEN [call EXCEPT !.pc = "done"]
    ELSE [call EXCEPT !.pc = "done", !.result = <<FALSE>>]

\* the await of saveProfiles resumes
ProfilesSaved(p) ==
    /\ calls[p].pc = "saveProfiles"
    /\ \E okSet \in BOOLEAN :
          IF okSet
          THEN /\ routineStorage' =
                     [routineStorage EXCEPT
                         ![PROFILES] = <<JsonStringify(calls[p].profiles, {})>>]
               /\ calls' = [calls EXCEPT ![p] = AfterSaveProfiles(calls[p])]
          ELSE /\ calls' = [calls EXCEPT ![p] = AfterThrownSave(calls[p])]
               /\ UNCHANGED routineStorage
    /\ UNCHANGED <<currentProfileId, BesidesProfileCalls>>

\* switchProfile's await of saveActiveProfile resumes; then this.currentProfileId is set
ActiveProfileSaved(p) ==
    /\ calls[p].pc = "saveActiveProfile"
    /\ \E okSet \in BOOLEAN :
          IF okSet
          THEN /\ routineStorage' =
                     [routineStorage EXCEPT ![ACTIVE_PROFILE] = <<calls[p].arg>>]
               /\ currentProfileId' = calls[p].arg
               /\ calls' = [calls EXCEPT ![p].pc = "done", ![p].result = <<TRUE>>]
          ELSE /\ calls' = [calls EXCEPT ![p] = AfterThrownSave(calls[p])]
               /\ UNCHANGED <<routineStorage, currentProfileId>>
    /\ UNCHANGED BesidesProfileCalls

NextProfileCalls ==
    \/ \E profileData \in NewProfiles : StartProfileCall("createProfile", profileData)
    \/ \E profileId \in RequestedIds : StartProfileCall("switchProfile", profileId)
    \/ \E profileId \in RequestedIds : StartProfileCall("deleteProfile", profileId)
    \/ \E p \in 1..Len(calls) : ProfilesRead(p)
    \/ \E p \in 1..Len(calls) : ProfilesSaved(p)
    \/ \E p \in 1..Len(calls) : ActiveProfileSaved(p)

SpecProfileCalls == InitProfileCalls /\ [][NextProfileCalls]_vars

(***************************************************************************)
(* components/aiFeatures/DailyForecast.tsx: the Daily Forecast screen.     *)
(* monthlyBudget and forecast are its state, transactions its prop; the    *)
(* effect on [transactions, monthlyBudget] runs loadForecast after the     *)
(* mount and after each change of monthlyBudget.  Amounts are whole.       *)
(***************************************************************************)
\* the budgets stored when the screen mounts: none, or a category budget accepted in
\* the Budget Suggestions screen
EarlierBudgets == {<<>>, <<UserBudget("1", "Food", 30, IsoString(1))>>}

\* what the user types into the budget modal
BudgetInputs == {"100", "250", "0"}

InitDailyForecast ==
    /\ transactions \in SeqsUpTo(ScreenTransactions, MaxDailyForecastTx)
    /\ \E budgets \in EarlierBudgets :
          storage = [k \in StorageKeys |->
                        IF k = USER_BUDGETS /\ budgets # <<>>
                        THEN <<JsonStringify(budgets, {})>>
                        ELSE <<>>]
    /\ today = [year |-> 2024, month |-> 8, day |-> 15]
    /\ now = Len(Installed) + 1
    /\ monthlyBudget = 0
    /\ targetDate = <<>>
    /\ forecast = <<>>
    /\ screenCall = <<>>
    /\ calls = <<>>
    /\ returned = <<>>
    /\ period = ""
    /\ breakdown = <<>>
    /\ insights = <<>>
    /\ called = ""
    /\ suggestions = <<>>
    /\ IdleClassify
    /\ IdleSeason
    /\ IdleBudget
    /\ IdleGoals
    /\ IdleBadges
    /\ IdleProfiles

\* what the screen's handlers leave alone
BesidesDailyForecast ==
    <<analyticsVars, called, classifyVars, targetDate, now, calls, returned, today,
      seasonVars, budgetVars, suggestions, goalVars, badgeVars, profileVars>>

\* a handler of the screen ended, with `amount` as the budget it set and showing
\* `alert`; effect: monthlyBudget has changed since loadForecast last ran
ForecastCall(fn, amount, alert, effect) ==
    [fn |-> fn, amount |-> amount, alert |-> alert, effect |-> effect]

\* the effect is to run: after the mount, or after a change of monthlyBudget
EffectPending == IF screenCall = <<>> THEN TRUE ELSE screenCall.effect

\* budgets.filter(b => b.period === 'monthly').reduce((sum, b) => sum + b.amount, 0)
TotalBudget(budgets) == SumAmounts(SelectSeq(budgets, LAMBDA b : b.period = "monthly"))

\* loadForecast once getUserBudgets has returned budgets
LoadedForecast(budgets) ==
    /\ monthlyBudget' = TotalBudget(budgets)
    /\ forecast' = IF TotalBudget(budgets) > 0
                   THEN <<calculateDailyForecast(transactions, TotalBudget(budgets), today)>>
                   ELSE forecast
    /\ screenCall' = ForecastCall("loadForecast", TotalBudget(budgets), <<>>,
                                  TotalBudget(budgets) # monthlyBudget)

\* loadForecast, run by the effect
LoadForecast ==
    /\ EffectPending
    /\ \E okGet \in BOOLEAN : LoadedForecast(Getter(storage[USER_BUDGETS], okGet, {}).value)
    /\ UNCHANGED <<storage, BesidesDailyForecast>>

\* handleSetBudget's try block: saveUserBudget(budget), then setMonthlyBudget(amount)
SetBudget(amount, budgets, okSet) ==
    IF okSet
    THEN /\ storage' =
               [storage EXCEPT
                   ![USER_BUDGETS] =
                       <<JsonStringify(
                             WithUserBudget(budgets,
                                            UserBudget(NumberToString(now), "Monthly Budget",
                                                       amount, IsoString(now))),
                             {})>>]
         /\ monthlyBudget' = amount
         /\ screenCall' = ForecastCall("handleSetBudget", amount,
                                       <<"Monthly budget updated!">>,
                                       EffectPending \/ amount # monthlyBudget)
    ELSE /\ screenCall' = ForecastCall("handleSetBudget", amount,
                                       <<"Failed to set budget. Please try again.">>,
                                       EffectPending)
         /\ UNCHANGED <<storage, monthlyBudget>>

\* handleSetBudget with budgetInput typed into the modal
HandleSetBudget(budgetInput) ==
    /\ Len(StoredBudgets) < MaxDailyForecastBudgets
    /\ IF ParseInt(budgetInput) <= 0
       THEN /\ screenCall' = ForecastCall("handleSetBudget", 0,
                                          <<"Please enter a valid amount">>, EffectPending)
            /\ UNCHANGED <<storage, monthlyBudget>>
       ELSE \E okGet, okSet \in BOOLEAN :
               SetBudget(ParseInt(budgetInput),
                         Getter(storage[USER_BUDGETS], okGet, {}).value, okSet)
    /\ UNCHANGED <<forecast, BesidesDailyForecast>>

NextDailyForecast ==
    \/ Tick
    \/ LoadForecast
    \/ \E budgetInput \in BudgetInputs : HandleSetBudget(budgetInput)

SpecDailyForecast == InitDailyForecast /\ [][NextDailyForecast]_vars

(***************************************************************************)
(* services/recurringExpenses.ts: RecurringExpensesService over            *)
(* routineStorage's recurring expenses and storage's transactions.  A Date *)
(* is [year, month, day]: every instant is the UTC midnight of its day,    *)
(* and `today` is new Date().  Math.random() never returns a value that a  *)
(* stored id holds.  Each createRecurringExpense falls in a millisecond of *)
(* its own; at most one storage call fails in a call of                    *)
(* processRecurringExpenses, and the getItem inside its saveTransaction    *)
(* succeeds.                                                               *)
(***************************************************************************)
\* the optional property of a RecurringExpense
RecurringOptional == {"lastProcessed"}

RecurringExpense(id, transactionId, frequency, nextDueDate, isActive, createdAt) ==
    [id |-> id, transactionId |-> transactionId, frequency |-> frequency,
     nextDueDate |-> nextDueDate, isActive |-> isActive, createdAt |-> createdAt,
     lastProcessed |-> <<>>]

\* Date.prototype.toISOString()
ToISOString(date) ==
    PadStart(NumberToString(date.year), 4) \o "-" \o PadStart(NumberToString(date.month), 2)
        \o "-" \o PadStart(NumberToString(date.day), 2) \o "T00:00:00.000Z"

\* new Date(text) of an ISO string
NewDate(text) ==
    [year |-> ParseInt(SubSeq(text, 1, 4)), month |-> ParseInt(SubSeq(text, 6, 7)),
     day |-> ParseInt(SubSeq(text, 9, 10))]

\* text.split('T')[0] of an ISO string
DatePart(text) == SubSeq(text, 1, 10)

\* a <= b on Dates
DateLeq(a, b) ==
    \/ a.year < b.year
    \/ a.year = b.year /\ a.month < b.month
    \/ a.year = b.year /\ a.month = b.month /\ a.day <= b.day

RECURSIVE NormalDate(_, _, _)
\* the Date that setDate / setMonth leave: a month above 12 runs into the next year, a
\* day above the month's last into the next month
NormalDate(year, month, day) ==
    IF month > 12 THEN NormalDate(year + 1, month - 12, day)
    ELSE IF day > DaysInMonth(year, month)
    THEN NormalDate(year, month + 1, day - DaysInMonth(year, month))
    ELSE [year |-> year, month |-> month, day |-> day]

calculateNextDueDate(currentDate, frequency) ==
    IF frequency = "daily"
    THEN NormalDate(currentDate.year, currentDate.month, currentDate.day + 1)
    ELSE IF frequency = "weekly"
    THEN NormalDate(currentDate.year, currentDate.month, currentDate.day + 7)
    ELSE NormalDate(currentDate.year, currentDate.month + 1, currentDate.day)

\* what getRecurringExpenses returns while the store works
StoredRecurring == Getter(routineStorage[RECURRING_EXPENSES], TRUE, RecurringOptional).value

\* saveRecurringExpense's list: existing.filter(e => e.id !== recurringExpense.id) with
\* the expense pushed
WithRecurring(existing, recurringExpense) ==
    Append(SelectSeq(existing, LAMBDA e : e.id # recurringExpense.id), recurringExpense)

\* the values Math.random() returns
Randoms == {"0.1", "0.2", "0.3", "0.4", "0.5"}

\* String.prototype.endsWith
EndsWith(s, p) == Len(s) >= Len(p) /\ SubSeq(s, Len(s) - Len(p) + 1, Len(s)) = p

\* a value of Randoms that ends no id of the list (the least, for definiteness)
Random(list) ==
    CHOOSE r \in Randoms :
        /\ \A i \in 1..Len(list) : ~EndsWith(list[i].id, r)
        /\ \A q \in Randoms :
              (\A i \in 1..Len(list) : ~EndsWith(list[i].id, q))
                  => ParseInt(SubSeq(r, 3, 3)) <= ParseInt(SubSeq(q, 3, 3))

\* the days the clock shows, in order: recurring expenses are created on the first;
\* on the second a daily one is eight periods overdue, a weekly one is one period
\* overdue and a monthly one, due on March the 1st, is not due
Days == <<[year |-> 2024, month |-> 1, day |-> 30], [year |-> 2024, month |-> 2, day |-> 7]>>

Frequencies == {"daily", "weekly", "monthly"}

InitRecurring ==
    /\ storage = [k \in StorageKeys |->
                     IF k = TRANSACTIONS
                     THEN <<JsonStringify(Installed, TransactionOptional)>>
                     ELSE <<>>]
    /\ routineStorage = [k \in RoutineKeys |-> <<>>]
    /\ currentProfileId = "personal"
    /\ today = Days[1]
    /\ now = Len(Installed) + 1
    /\ calls = <<>>
    /\ returned = <<>>
    /\ called = ""
    /\ IdleAnalytics
    /\ IdleClassify
    /\ IdleForecast
    /\ IdleSeason
    /\ IdleBudget
    /\ IdleScreens

\* what the service's methods leave alone
BesidesRecurring ==
    <<analyticsVars, called, classifyVars, forecastVars, calls, seasonVars,
      budgetVars, suggestions, goalVars, badgeVars, currentProfileId>>

\* a later day comes
AdvanceDay ==
    /\ \E i \in 1..(Len(Days) - 1) : today = Days[i] /\ today' = Days[i + 1]
    /\ UNCHANGED <<storage, routineStorage, now, returned, screenCall, BesidesRecurring>>

\* a method of the service ended.  created: the <<recurring expense, transaction>>
\* pairs it saved a transaction for; threw: whether a storage call threw; readFailed:
\* whether a getItem of processRecurringExpenses failed
RecurringCall(fn, created, threw, original) ==
    [fn |-> fn, created |-> created, threw |-> threw, original |-> original,
     readFailed |-> FALSE]

\* createRecurringExpense(transaction, frequency), its storage calls succeeding
CreateRecurringExpense(t, frequency) ==
    /\ today = Days[1]
    /\ now < Len(Installed) + 1 + MaxRecurring
    /\ routineStorage' =
           [routineStorage EXCEPT
               ![RECURRING_EXPENSES] =
                   <<JsonStringify(
                         WithRecurring(
                             StoredRecurring,
                             RecurringExpense(
                                 "recurring_" \o NumberToString(now), t.id, frequency,
                                 ToISOString(calculateNextDueDate(today, frequency)),
                                 TRUE, ToISOString(today))),
                         RecurringOptional)>>]
    /\ screenCall' = RecurringCall("createRecurringExpense", <<>>, FALSE, <<>>)
    /\ now' = now + 1
    /\ UNCHANGED <<storage, today, returned, BesidesRecurring>>

\* toggleRecurringExpense(id) of the i-th stored expense, its storage calls succeeding
ToggleRecurringExpense(i) ==
    /\ routineStorage' =
           [routineStorage EXCEPT
               ![RECURRING_EXPENSES] =
                   <<JsonStringify(
                         WithRecurring(
                             StoredRecurring,
                             [StoredRecurring[i] EXCEPT
                                 !.isActive = ~StoredRecurring[i].isActive]),
                         RecurringOptional)>>]
    /\ screenCall' = RecurringCall("toggleRecurringExpense", <<>>, FALSE, <<>>)
    /\ UNCHANGED <<storage, today, now, returned, BesidesRecurring>>

\* the loop's state before any expense: the two stored items, nothing created
LoopStart ==
    [transactions |-> storage[TRANSACTIONS], recurring |-> routineStorage[RECURRING_EXPENSES],
     created |-> <<>>, threw |-> FALSE, readFailed |-> FALSE]

\* the transaction the loop creates for `recurring`, the transactions of `stored`
\* having their ids
NewTransaction(originalTransaction, recurring, stored) ==
    [originalTransaction EXCEPT
        !.id = "recurring_" \o NumberToString(now) \o "_" \o Random(stored),
        !.date = DatePart(ToISOString(NewDate(recurring.nextDueDate))),
        !.createdAt = ToISOString(today)]

\* the expense the loop saves after it
UpdatedRecurring(recurring) ==
    [recurring EXCEPT
        !.lastProcessed = <<ToISOString(NewDate(recurring.nextDueDate))>>,
        !.nextDueDate = ToISOString(calculateNextDueDate(NewDate(recurring.nextDueDate),
                                                         recurring.frequency))]

\* one turn of the loop from state `at`: saveTransaction, then saveRecurringExpense.
\* ok[2]: saveTransaction's setItem succeeds; ok[3], ok[4]: saveRecurringExpense's
\* getItem and setItem succeed; a failed setItem throws out of the loop
LoopTurn(at, recurring, originalTransaction, ok) ==
    IF at.threw \/ ~recurring.isActive \/ ~DateLeq(NewDate(recurring.nextDueDate), today)
    THEN at
    ELSE IF ~ok[2] THEN [at EXCEPT !.threw = TRUE]
    ELSE LET newTransaction ==
                 NewTransaction(originalTransaction, recurring,
                                StoredTransactions
                                    \o [k \in 1..Len(at.created) |-> at.created[k][2]])
             saved ==
                 [at EXCEPT
                     !.transactions =
                         <<JsonStringify(
                               AppendTransaction(
                                   Getter(at.transactions, TRUE, TransactionOptional).value,
                                   newTransaction),
                               TransactionOptional)>>,
                     !.created = Append(at.created, <<recurring, newTransaction>>)]
         IN  IF ~ok[4] THEN [saved EXCEPT !.threw = TRUE]
             ELSE [saved EXCEPT
                      !.readFailed = saved.readFailed \/ ~ok[3],
                      !.recurring =
                          <<JsonStringify(
                                WithRecurring(
                                    Getter(saved.recurring, ok[3], RecurringOptional).value,
                                    UpdatedRecurring(recurring)),
                                RecurringOptional)>>]

\* which of a turn's storage calls succeed: all, or all but one when none has failed
\* before
TurnOutcomes(at) ==
    {ok \in [2..4 -> BOOLEAN] :
        /\ Cardinality({c \in 2..4 : ~ok[c]}) <= 1
        /\ at.readFailed => \A c \in 2..4 : ok[c]}

RECURSIVE LoopFrom(_, _, _, _)
\* the states the loop over recurringExpenses can end in, from its i-th expense
LoopFrom(i, at, recurringExpenses, originalTransaction) ==
    IF i > Len(recurringExpenses) THEN {at}
    ELSE UNION {LoopFrom(i + 1, LoopTurn(at, recurringExpenses[i], originalTransaction, ok),
                         recurringExpenses, originalTransaction) :
                   ok \in TurnOutcomes(at)}

\* processRecurringExpenses(originalTransaction): the catch returns []
ProcessRecurringExpenses(originalTransaction) ==
    /\ Len(StoredTransactions) < MaxRecurringTx
    /\ \E okGet \in BOOLEAN :
          \E end \in LoopFrom(1, [LoopStart EXCEPT !.readFailed = ~okGet],
                              Getter(routineStorage[RECURRING_EXPENSES], okGet,
                                     RecurringOptional).value,
                              originalTransaction) :
              /\ storage' = [storage EXCEPT ![TRANSACTIONS] = end.transactions]
              /\ routineStorage' =
                     [routineStorage EXCEPT ![RECURRING_EXPENSES] = end.recurring]
              /\ returned' = IF end.threw THEN <<>>
                             ELSE [k \in 1..Len(end.created) |-> end.created[k][2]]
              /\ screenCall' =
                     [RecurringCall("processRecurringExpenses", end.created, end.threw,
                                    <<originalTransaction>>)
                         EXCEPT !.readFailed = end.readFailed]
    /\ UNCHANGED <<today, now, BesidesRecurring>>

NextRecurring ==
    \/ AdvanceDay
    \/ \E t \in {Installed[i] : i \in 1..Len(Installed)} : \E frequency \in Frequencies :
          CreateRecurringExpense(t, frequency)
    \/ \E i \in 1..Len(StoredRecurring) : ToggleRecurringExpense(i)
    \/ \E t \in {Installed[i] : i \in 1..Len(Installed)} : ProcessRecurringExpenses(t)

SpecRecurring == InitRecurring /\ [][NextRecurring]_vars

(***************************************************************************)
(* Vocabulary of the properties.                                           *)
(***************************************************************************)
RECURSIVE SumOfAmountsAt(_, _)
\* the sum of seq[i].amount over the indices i in I
SumOfAmountsAt(seq, I) ==
    IF I = {} THEN 0
    ELSE LET i == CHOOSE j \in I : TRUE
         IN  seq[i].amount + SumOfAmountsAt(seq, I \ {i})

\* the positions of the expense-type transactions whose date starts with the period
PeriodExpenseIdx ==
    {i \in 1..Len(transactions) :
        /\ transactions[i].type = "expense"
        /\ Len(period) <= Len(transactions[i].date)
        /\ \A k \in 1..Len(period) :
              SubSeq(transactions[i].date, k, k) = SubSeq(period, k, k)}

PeriodExpenseTotal == SumOfAmountsAt(transactions, PeriodExpenseIdx)

\* a sum of fractions <<n, d>>, as a fraction; a zero denominator stays zero
FracSum(seq) ==
    LET F[i \in 0..Len(seq)] ==
            IF i = 0 THEN <<0, 1>>
            ELSE <<F[i - 1][1] * seq[i][2] + seq[i][1] * F[i - 1][2],
                   F[i - 1][2] * seq[i][2]>>
    IN  F[Len(seq)]

FracEquals(f, n) == f[2] # 0 /\ f[1] = n * f[2]

PercentageSum == FracSum([i \in 1..Len(breakdown) |-> breakdown[i].percentage])

BreakdownDone == called = "calculateCategoryBreakdown"

\* C1: the amounts of the breakdown entries add up to the sum of the amounts of the
\* expense transactions of the period, and each category of such a transaction
\* appears in exactly one entry (and no other category appears).
C1_BreakdownAmountsAddUp ==
    BreakdownDone =>
        /\ SumOfAmountsAt(breakdown, 1..Len(breakdown)) = PeriodExpenseTotal
        /\ \A i \in PeriodExpenseIdx :
              Cardinality({j \in 1..Len(breakdown) :
                              breakdown[j].category = transactions[i].category}) = 1
        /\ \A j \in 1..Len(breakdown) :
              \E i \in PeriodExpenseIdx : transactions[i].category = breakdown[j].category

\* C1 witness: a breakdown whose single entry merges the period's two expenses of one
\* category, computed from a list that also holds a transaction it must leave out.
C1_Witness ==
    /\ BreakdownDone
    /\ Cardinality(PeriodExpenseIdx) = 2
    /\ Len(transactions) = 3
    /\ Len(breakdown) = 1

InsightsDone == called = "generateSpendingInsights"

ExpenseIdx == {i \in 1..Len(transactions) : transactions[i].type = "expense"}

ExpenseDays == {transactions[i].date : i \in ExpenseIdx}

\* the expense total of day d
DayTotal(d) == SumOfAmountsAt(transactions, {i \in ExpenseIdx : transactions[i].date = d})

\* d's total is strictly above 1.5 times the mean of the per-day expense totals
QualifyingDay(d) ==
    2 * DayTotal(d) * Cardinality(ExpenseDays) > 3 * SumOfAmountsAt(transactions, ExpenseIdx)

QualifyingDays == {d \in ExpenseDays : QualifyingDay(d)}

HighSpendingIdx == {j \in 1..Len(insights) : insights[j].type = "high_spending_day"}

FlaggedDays == {insights[j].date[1] : j \in HighSpendingIdx}

ClassifyDone == called = "classifyTransaction"

\* C3: the confidence classifyTransaction returns is at least 0 and at most 1 (0 to 10
\* tenths), for every transaction and every list of prior user classifications.
C3_ConfidenceInRange ==
    ClassifyDone => classified[1].confidence >= 0 /\ classified[1].confidence <= 10

\* C3 witness: a classification whose uncapped score is above 1.0 (a need category, a
\* hit in both keyword lists, a low amount and a long note) is returned with 1.0.
C3_Witness ==
    /\ ClassifyDone
    /\ transaction.category = "Health"
    /\ transaction.note = <<"movie ticket and coffee">>
    /\ transaction.amount < 50
    /\ Len(userClassifications) > 0
    /\ classified[1].confidence = 10

\* some fixed need category occurs in the category, letter case ignored
ContainsNeedCategory(category) ==
    \E n \in {"health", "transportation", "housing", "utilities", "insurance"} :
        \E i \in 1..Len(category) :
            /\ i + Len(n) - 1 <= Len(category)
            /\ ToLowerCase(SubSeq(category, i, i + Len(n) - 1)) = n

\* C4: a transaction whose category contains a need category, letter case ignored, is
\* classified 'need' for every amount, note and list of prior user classifications.
C4_NeedCategoryIsNeed ==
    (ClassifyDone /\ ContainsNeedCategory(transaction.category)) =>
        classified[1].classification = "need"

\* C4 witness: "HEALTHCARE" with a note full of want keywords, a high amount and prior
\* user classifications that say 'want' is classified 'need'.
C4_Witness ==
    /\ ClassifyDone
    /\ transaction.category = "HEALTHCARE"
    /\ transaction.note = <<"movie ticket and coffee">>
    /\ transaction.amount > 200
    /\ \E i \in 1..Len(userClassifications) : userClassifications[i].classification = "want"
    /\ classified[1].classification = "need"

MedicalCheckup ==
    /\ ClassifyDone
    /\ transaction.category = "Medical Checkup"
    /\ transaction.note = <<>>

\* C7 as stated: "Medical Checkup" with no note is classified 'need' with confidence
\* at least 0.8 for every amount.
C7_MedicalCheckupAtLeast08 ==
    MedicalCheckup =>
        classified[1].classification = "need" /\ classified[1].confidence >= 8

\* C7 amended: "Medical Checkup" with no note is classified 'need' with confidence at
\* least 0.7 for every amount.
C7_MedicalCheckupAtLeast07 ==
    MedicalCheckup =>
        classified[1].classification = "need" /\ classified[1].confidence >= 7

\* C7 witness: "Medical Checkup" with no note and an amount from 50 to 200, where
\* neither amount bonus applies.
C7_Witness ==
    /\ MedicalCheckup
    /\ transaction.amount >= 50
    /\ transaction.amount <= 200
    /\ classified[1].classification = "need"

ForecastDone == called = "calculateDailyForecast"

\* the positions of the transactions dated in the target date's month
TargetMonthIdx ==
    {i \in 1..Len(transactions) :
        /\ ParseInt(SubSeq(transactions[i].date, 1, 4)) = targetDate.year
        /\ ParseInt(SubSeq(transactions[i].date, 6, 7)) = targetDate.month}

\* C5: the safeToSpend calculateDailyForecast returns is never negative, also when the
\* month's spend to date exceeds the monthly budget.
C5_SafeToSpendNeverNegative ==
    ForecastDone => forecast[1].safeToSpend[1] >= 0

\* C5 witness: a forecast for a positive budget that the month's transactions exceed.
C5_Witness ==
    /\ ForecastDone
    /\ monthlyBudget > 0
    /\ SumOfAmountsAt(transactions, TargetMonthIdx) > monthlyBudget
    /\ forecast[1].safeToSpend[1] = 0

StoredIds == {StoredTransactions[i].id : i \in 1..Len(StoredTransactions)}

\* the invocation went through with neither its read nor its write failing
CompletedOk(p) ==
    /\ calls[p].pc = "done"
    /\ ~calls[p].readFailed
    /\ ~calls[p].writeFailed
    /\ ~calls[p].threw

\* every invocation so far is an add whose storage accesses worked, and no two of
\* them overlapped
NonInterleavedAdds ==
    /\ \A r \in DOMAIN calls :
          calls[r].pc # "idle" =>
              calls[r].op = "add" /\ ~calls[r].readFailed /\ ~calls[r].writeFailed
    /\ \A r1, r2 \in DOMAIN calls :
          (r1 # r2 /\ calls[r1].pc # "idle" /\ calls[r2].pc # "idle") =>
              r1 \in calls[r2].finishedBefore \/ r2 \in calls[r1].finishedBefore

\* C6: after non-interleaved adds, a completed add makes getTransactions return the
\* previous list plus exactly one new record, which has the submitted field values and
\* an identifier that no other stored transaction has.
C6_AddRoundTrip ==
    [][\A p \in DOMAIN calls :
          (/\ calls[p].pc = "write"
           /\ calls'[p].pc = "done"
           /\ ~calls'[p].threw
           /\ NonInterleavedAdds)
          => /\ Len(StoredTransactions') = Len(StoredTransactions) + 1
             /\ SubSeq(StoredTransactions', 1, Len(StoredTransactions)) = StoredTransactions
             /\ \A k \in DOMAIN calls[p].arg[1] \ {"id", "createdAt"} :
                   StoredTransactions'[Len(StoredTransactions')][k] = calls[p].arg[1][k]
             /\ \A i \in 1..Len(StoredTransactions) :
                   StoredTransactions[i].id # StoredTransactions'[Len(StoredTransactions')].id
      ]_vars

\* the stored list shows the effect of invocation p (a delete or an add)
Reflects(p) ==
    IF calls[p].op = "delete" THEN calls[p].arg[1] \notin StoredIds
    ELSE \E i \in 1..Len(StoredTransactions) : StoredTransactions[i] = calls[p].arg[1]

\* q, run after p, undid p's effect on purpose: it deleted what p added
Undoes(q, p) ==
    /\ calls[p].op = "add"
    /\ calls[q].op = "delete"
    /\ calls[q].arg[1] = calls[p].arg[1].id

\* p and q are the only invocations, both went through, and they are two deletes or an
\* add and a delete
RacingPair(p, q) ==
    /\ p # q
    /\ CompletedOk(p)
    /\ CompletedOk(q)
    /\ \A r \in DOMAIN calls \ {p, q} : calls[r].pc = "idle"
    /\ {calls[p].op, calls[q].op} \in {{"delete"}, {"add", "delete"}}

\* C8, the part that holds in every state: two operations on the transactions key run
\* one after the other always reflect both.  (The lost update of two interleaved
\* operations is the state C8_LostUpdate.)
C8_SequentialReflectsBoth ==
    \A p, q \in DOMAIN calls :
        (RacingPair(p, q) /\ p \in calls[q].finishedBefore) =>
            /\ Reflects(q)
            /\ Reflects(p) \/ Undoes(q, p)

\* C8 witness: two operations whose read and write steps interleaved have both
\* finished, and the stored list reflects only one of them.
C8_LostUpdate ==
    \E p, q \in DOMAIN calls :
        /\ RacingPair(p, q)
        /\ p \notin calls[q].finishedBefore
        /\ q \notin calls[p].finishedBefore
        /\ Reflects(q)
        /\ ~Reflects(p)
        /\ ~Undoes(q, p)

\* C9: when the key-value store fails, a getter returns its empty value without
\* throwing, and a mutator whose write fails rethrows and leaves the stored list as it
\* was.
C9_StoreFailures ==
    [][/\ (returned' # <<>> /\ returned'[1].failed) =>
              returned'[1].value = <<>> /\ ~returned'[1].threw
       /\ \A p \in DOMAIN calls :
             (calls[p].pc = "read" /\ calls'[p].pc = "write" /\ calls'[p].readFailed) =>
                 calls'[p].existing = <<>> /\ ~calls'[p].threw
       /\ \A p \in DOMAIN calls :
             (calls[p].pc = "write" /\ calls'[p].pc = "done" /\ calls'[p].writeFailed) =>
                 calls'[p].threw /\ storage' = storage
      ]_vars

\* C9 witness: a getter of a key that holds a non-empty list has returned [] on a
\* failure, and an update whose write failed has thrown.
C9_Witness ==
    /\ returned # <<>>
    /\ returned[1].failed
    /\ returned[1].fn = "getCategories"
    /\ returned[1].value = <<>>
    /\ \E p \in DOMAIN calls :
          /\ calls[p].op = "update"
          /\ calls[p].writeFailed
          /\ calls[p].threw
          /\ StoredTransactions # <<>>

\* the category matches no need category and the keyword lists hit equally often
KeywordTie ==
    /\ ClassifyDone
    /\ ~ContainsNeedCategory(transaction.category)
    /\ KeywordHits(NEED_KEYWORDS, ClassificationText(transaction))
          = KeywordHits(WANT_KEYWORDS, ClassificationText(transaction))

\* C11: with no need category and equal keyword hit counts, the rule-based label is
\* 'want' for every amount above 100, 'need' for every amount below 20, and
\* 'unclassified' for every other amount.
C11_TieBreakByAmount ==
    KeywordTie =>
        /\ ruleBasedClassification(transaction) =
              (IF transaction.amount > 100 THEN "want"
               ELSE IF transaction.amount < 20 THEN "need"
               ELSE "unclassified")
        /\ classified[1].classification = ruleBasedClassification(transaction)

\* C12: the history pass is a no-op: for every transaction and every list of prior
\* user classifications, classifyTransaction returns the label and the confidence it
\* returns for that transaction with no prior classifications.
C12_HistoryPassIsNoOp ==
    ClassifyDone =>
        /\ classified[1].classification
              = classifyTransaction(transaction, <<>>).classification
        /\ classified[1].confidence = classifyTransaction(transaction, <<>>).confidence

\* C12 witness: a transaction that is 'unclassified' at confidence 0.5 on its own has
\* been classified with two prior user classifications that both say 'want' at full
\* confidence, and is still 'unclassified' at 0.5.
C12_Witness ==
    /\ ClassifyDone
    /\ Len(userClassifications) = 2
    /\ \A i \in 1..Len(userClassifications) :
          /\ userClassifications[i].classification = "want"
          /\ userClassifications[i].confidence = 10
    /\ transaction.category = "Misc"
    /\ transaction.note = <<>>
    /\ transaction.amount = 50
    /\ classified[1].classification = "unclassified"
    /\ classified[1].confidence = 5

SeasonDone == called = "getSeasonalFactor"

\* the word occurs in the text, letter case ignored
ContainsWord(text, word) ==
    \E i \in 1..Len(text) :
        /\ i + Len(word) - 1 <= Len(text)
        /\ ToLowerCase(SubSeq(text, i, i + Len(word) - 1)) = word

\* the factor the three rules give, the first rule that applies deciding, when the
\* holiday months are those of the set given (months counted 1..12)
SeasonalRule(holidayMonths) ==
    IF today.month \in holidayMonths
       /\ (ContainsWord(seasonCategory, "shopping") \/ ContainsWord(seasonCategory, "gift"))
    THEN 130
    ELSE IF today.month \in 6..9
            /\ (ContainsWord(seasonCategory, "travel")
                \/ ContainsWord(seasonCategory, "entertainment"))
    THEN 120
    ELSE IF today.month \in 8..9
            /\ (ContainsWord(seasonCategory, "education")
                \/ ContainsWord(seasonCategory, "shopping"))
    THEN 115
    ELSE 100

\* C13 as stated: the seasonal multiplier is 1.3 for shopping / gift categories in
\* November or December, 1.2 for travel / entertainment in June through September,
\* 1.15 for education / shopping in August or September, and 1.0 otherwise.
C13_SeasonalFactorNovDec ==
    SeasonDone => seasonalFactor = SeasonalRule({11, 12})

\* C13 amended: the seasonal multiplier is 1.3 for shopping / gift categories in
\* December or January, otherwise 1.2 for travel / entertainment in June through
\* September, otherwise 1.15 for education / shopping in August or September, and 1.0
\* for every other category and month.
C13_SeasonalFactorDecJan ==
    SeasonDone => seasonalFactor = SeasonalRule({12, 1})

\* C13 witness: a shopping category in January, where the factor is 1.3.
C13_Witness ==
    /\ SeasonDone
    /\ seasonCategory = "Shopping"
    /\ today.month = 1
    /\ seasonalFactor = 130

BudgetDone == called = "generateBudgetSuggestions"

\* the categories of the transactions that no existing budget names
UnbudgetedCategories ==
    {transactions[i].category : i \in 1..Len(transactions)}
        \ {existingBudgets[i].category : i \in 1..Len(existingBudgets)}

\* C14, the part about generateBudgetSuggestions: it returns exactly one suggestion
\* for each distinct transaction category without an existing budget, none for a
\* category with one, ordered by suggested amount descending.
C14_OnePerUnbudgetedCategory ==
    BudgetDone =>
        /\ {budgetSuggestions[i].category : i \in 1..Len(budgetSuggestions)}
              = UnbudgetedCategories
        /\ Len(budgetSuggestions) = Cardinality(UnbudgetedCategories)
        /\ \A i \in 1..Len(budgetSuggestions) - 1 :
              budgetSuggestions[i].suggestedAmount[1]
                  >= budgetSuggestions[i + 1].suggestedAmount[1]

\* a list of three categories, one of them budgeted, gives two suggestions with
\* different amounts
C14_FunctionWitness ==
    /\ BudgetDone
    /\ Cardinality({transactions[i].category : i \in 1..Len(transactions)}) = 3
    /\ Len(existingBudgets) = 1
    /\ Len(budgetSuggestions) = 2
    /\ budgetSuggestions[1].suggestedAmount[1] > budgetSuggestions[2].suggestedAmount[1]

\* C14, the part about the screen: the BudgetSuggestions screen never shows the user
\* a suggestion for a category that already has a stored UserBudget.
C14_NoSuggestionForBudgetedCategory ==
    \A i \in 1..Len(suggestions) : ~HasBudget(StoredBudgets, suggestions[i].category)

\* every suggestion the store holds is still held after the step, and one that was
\* accepted is still accepted
SuggestionsKept ==
    \A i \in 1..Len(StoredSuggestions) :
        \E j \in 1..Len(StoredSuggestions') :
            /\ StoredSuggestions'[j].category = StoredSuggestions[i].category
            /\ StoredSuggestions[i].accepted => StoredSuggestions'[j].accepted

\* the step is an accept that went through
Accepted ==
    /\ screenCall' # <<>>
    /\ screenCall'.fn \in {"handleAcceptSuggestion", "handleSaveCustomBudget"}
    /\ ~screenCall'.threw
    /\ storage' # storage

\* C20: a suggestion only moves from pending to accepted: an accept creates exactly
\* one UserBudget for the category with the suggested or customised amount, and after
\* it every suggestion that was accepted is still stored with accepted = true and
\* every other generated suggestion is still stored.
C20_SuggestionsOnlyMoveToAccepted ==
    [][Accepted =>
          /\ Len(StoredBudgets') = Len(StoredBudgets) + 1
          /\ StoredBudgets'[Len(StoredBudgets')].category = screenCall'.category
          /\ StoredBudgets'[Len(StoredBudgets')].amount = screenCall'.amount
          /\ \E j \in 1..Len(StoredSuggestions') :
                /\ StoredSuggestions'[j].category = screenCall'.category
                /\ StoredSuggestions'[j].accepted
          /\ SuggestionsKept
      ]_vars

\* the part of C20 about the stored suggestions alone
C20_StoredSuggestionsKept == [][Accepted => SuggestionsKept]_vars

\* the sum of the expense-type transactions dated in the target date's month
ExpenseSpendOfMonth ==
    SumOfAmountsAt(transactions,
                   {i \in TargetMonthIdx : transactions[i].type = "expense"})

\* the days left in the target date's month, the target day counted
DaysLeftCountingToday ==
    (CHOOSE d \in 28..31 :
        /\ d = 31 <=> targetDate.month \in {1, 3, 5, 7, 8, 10, 12}
        /\ d = 30 <=> targetDate.month \in {4, 6, 9, 11}
        /\ d = 29 <=> (targetDate.month = 2 /\ targetDate.year % 4 = 0
                       /\ (targetDate.year % 100 # 0 \/ targetDate.year % 400 = 0)))
    - targetDate.day + 1

\* cents is x rounded to 2 decimals, half up, for x = num / den with den > 0
IsRoundedToCents(cents, num, den) ==
    /\ 2 * den * cents <= 200 * num + den
    /\ 200 * num + den < 2 * den * (cents + 1)

\* C15: spentSoFar is the sum of the amounts of the expense-type transactions dated in
\* the target date's month (income in that month is not spend), and safeToSpend is
\* max(0, monthlyBudget - spentSoFar) divided by the days left in the month counting
\* today, rounded to 2 decimals.
C15_SpentSoFarIsExpenseOnly ==
    ForecastDone =>
        /\ forecast[1].spentSoFar = ExpenseSpendOfMonth
        /\ IsRoundedToCents(forecast[1].safeToSpend[1],
                            IF monthlyBudget - ExpenseSpendOfMonth > 0
                            THEN monthlyBudget - ExpenseSpendOfMonth ELSE 0,
                            DaysLeftCountingToday)

\* the same with every transaction of the month counted, whatever its type
C15_SpentSoFarIsEveryType ==
    ForecastDone =>
        /\ forecast[1].spentSoFar = SumOfAmountsAt(transactions, TargetMonthIdx)
        /\ IsRoundedToCents(forecast[1].safeToSpend[1],
                            IF monthlyBudget - forecast[1].spentSoFar > 0
                            THEN monthlyBudget - forecast[1].spentSoFar ELSE 0,
                            DaysLeftCountingToday)

\* C16: every stored savings goal's weeklyTarget is what remains to be saved,
\* targetAmount - currentAmount, divided by the weeks remaining until its deadline
\* (never fewer than one), to the cent
C16_WeeklyTargetTracksProgress ==
    \A i \in 1..Len(StoredGoals) :
        StoredGoals[i].weeklyTarget =
            RoundToCents(StoredGoals[i].targetAmount - StoredGoals[i].currentAmount,
                         WeeksLeft(StoredGoals[i].deadline, now))

\* what the code keeps instead: the weeklyTarget computed when the goal was created,
\* targetAmount over the weeks then remaining, whatever has been saved since
C16_WeeklyTargetIsCreationValue ==
    \A i \in 1..Len(StoredGoals) :
        StoredGoals[i].weeklyTarget =
            RoundToCents(StoredGoals[i].targetAmount,
                         WeeksLeft(StoredGoals[i].deadline, now))

\* a goal with several weeks left has had progress recorded
C16_ProgressRecorded ==
    /\ screenCall # <<>>
    /\ screenCall.fn = "handleUpdateProgress"
    /\ \E i \in 1..Len(StoredGoals) :
          /\ StoredGoals[i].currentAmount > 0
          /\ StoredGoals[i].currentAmount < StoredGoals[i].targetAmount
          /\ WeeksLeft(StoredGoals[i].deadline, now) > 1

\* the step on which badge b's loadClassification has stored its AI-assigned record
LoadStored(b) ==
    /\ badges[b].fn = "loadClassification"
    /\ badges[b].pc = "set"
    /\ badges'[b].pc = "done"
    /\ ~badges'[b].threw

\* the step on which badge b's handleClassificationChange has stored its record
ManualStored(b) ==
    /\ badges[b].fn = "handleClassificationChange"
    /\ badges[b].pc = "set"
    /\ badges'[b].pc = "done"
    /\ ~badges'[b].threw

\* the stored classifications of transaction id
RecordsOf(id) ==
    {i \in 1..Len(StoredClassifications) : StoredClassifications[i].transactionId = id}

\* C17: a first display stores its AI-assigned record only when the store holds no
\* record for the transaction
C17_FirstDisplayStoresOnlyWhenNone ==
    [][\A b \in 1..Len(badges) :
          LoadStored(b) => RecordsOf(badges[b].transaction.id) = {}]_vars

\* the stored list holds at most one ClassifiedTransaction per transaction
C17_OneRecordPerTransaction ==
    \A i, j \in 1..Len(StoredClassifications) :
        StoredClassifications[i].transactionId = StoredClassifications[j].transactionId
            => i = j

\* a manual reclassification that is stored leaves the chosen label with
\* aiGenerated = false as the transaction's record
C17_ManualReplaces ==
    [][\A b \in 1..Len(badges) :
          ManualStored(b) =>
              LET record == FindClassification(StoredClassifications',
                                               badges[b].transaction.id)
              IN  /\ record # <<>>
                  /\ record[1].classification = badges[b].newClassification
                  /\ ~record[1].aiGenerated]_vars

\* a manual record has been stored and a badge of the same transaction is still
\* loading
C17_LoadRacesManual ==
    \E b \in 1..Len(badges) :
        /\ badges[b].fn = "loadClassification"
        /\ badges[b].pc = "set"
        /\ \E i \in RecordsOf(badges[b].transaction.id) :
              ~StoredClassifications[i].aiGenerated

\* the least of it: the record a first display replaces is never a manually set one
C17_FirstDisplayReplacesNoManualRecord ==
    [][\A b \in 1..Len(badges) :
          LoadStored(b) =>
              \A i \in RecordsOf(badges[b].transaction.id) :
                  StoredClassifications[i].aiGenerated]_vars

\* what getTransactions returns, profileId included, while the store works
StoredProfileTransactions ==
    Getter(storage[TRANSACTIONS], TRUE, ProfileTransactionOptional).value

\* getProfileTransactions has just returned, its read having worked
ProfileTransactionsRead ==
    /\ screenCall # <<>>
    /\ screenCall.fn = "getProfileTransactions"
    /\ ~screenCall.readFailed

\* the transaction has no profileId, or one that names no stored profile
Orphaned(t) ==
    \/ t.profileId = <<>>
    \/ t.profileId[1] \notin ProfileIds(ExistingProfiles)

InSeq(x, seq) == \E i \in 1..Len(seq) : seq[i] = x

\* C18: a stored transaction with no profileId, or with one that names no existing
\* profile, is among what getProfileTransactions returns for the 'personal' profile
C18_OrphansReadAsPersonal ==
    (ProfileTransactionsRead /\ currentProfileId = "personal") =>
        \A i \in 1..Len(StoredProfileTransactions) :
            Orphaned(StoredProfileTransactions[i]) =>
                InSeq(StoredProfileTransactions[i], returned)

\* ... so that every stored transaction is returned for at least one existing profile
C18_EveryTransactionHasAProfile ==
    \A i \in 1..Len(StoredProfileTransactions) :
        \E id \in ProfileIds(ExistingProfiles) :
            InSeq(StoredProfileTransactions[i],
                  OfProfile(StoredProfileTransactions, id))

\* what the code does: a transaction without profileId is returned for whichever
\* profile is current, one with a profileId for that profile alone
C18_ReturnedByTagOnly ==
    ProfileTransactionsRead =>
        \A i \in 1..Len(StoredProfileTransactions) :
            InSeq(StoredProfileTransactions[i], returned)
                <=> \/ StoredProfileTransactions[i].profileId = <<>>
                    \/ StoredProfileTransactions[i].profileId = <<currentProfileId>>

\* 'personal' has been read while a transaction of a deleted profile is stored
C18_OrphanStored ==
    /\ ProfileTransactionsRead
    /\ currentProfileId = "personal"
    /\ \E i \in 1..Len(StoredProfileTransactions) :
          /\ StoredProfileTransactions[i].profileId # <<>>
          /\ Orphaned(StoredProfileTransactions[i])

\* deleteProfile has just removed the profile a stored transaction is tagged with
C18_DeletionOrphans ==
    /\ screenCall # <<>>
    /\ screenCall.fn = "deleteProfile"
    /\ screenCall.result = <<TRUE>>
    /\ ~screenCall.readFailed
    /\ \E i \in 1..Len(StoredProfileTransactions) :
          /\ StoredProfileTransactions[i].profileId # <<>>
          /\ Orphaned(StoredProfileTransactions[i])

IncomeIdx == {i \in 1..Len(transactions) : transactions[i].type = "income"}

TotalIncome == SumOfAmountsAt(transactions, IncomeIdx)

TotalExpenses == SumOfAmountsAt(transactions, ExpenseIdx)

\* the income-versus-expense messages among the insights
BalanceIdx ==
    {j \in 1..Len(insights) :
        insights[j].title \in {"Budget Alert", "Good Financial Health"}}

\* exactly one income-versus-expense message, and it has this title
OnlyBalanceMessage(title) ==
    /\ Cardinality(BalanceIdx) = 1
    /\ \A j \in BalanceIdx : insights[j].title = title

\* 'Good Financial Health' alone when income exceeds expenses, 'Budget Alert' alone
\* when expenses exceed income, neither when they are equal
BalanceMessageAsTotalsCompare ==
    IF TotalIncome > TotalExpenses THEN OnlyBalanceMessage("Good Financial Health")
    ELSE IF TotalExpenses > TotalIncome THEN OnlyBalanceMessage("Budget Alert")
    ELSE BalanceIdx = {}

\* C19: for every non-empty list, lists without expense transactions included, the
\* insights hold exactly one income-versus-expense message when the totals differ
\* ('Good Financial Health' for more income, 'Budget Alert' for more expenses) and
\* none when they are equal
C19_BalanceMessageForEveryList ==
    (InsightsDone /\ Len(transactions) > 0) => BalanceMessageAsTotalsCompare

\* C19, amended: the same for every list with at least one expense transaction; a list
\* with none gets no insight at all
C19_BalanceMessageWithExpenses ==
    InsightsDone =>
        IF ExpenseIdx = {} THEN insights = <<>> ELSE BalanceMessageAsTotalsCompare

\* a list with expenses and more income has its 'Good Financial Health' message
C19_Witness ==
    /\ InsightsDone
    /\ ExpenseIdx # {}
    /\ TotalIncome > TotalExpenses
    /\ TotalExpenses > 0
    /\ OnlyBalanceMessage("Good Financial Health")

\* a list of income alone has been analysed
C19_IncomeOnly ==
    /\ InsightsDone
    /\ Len(transactions) > 0
    /\ ExpenseIdx = {}
    /\ insights = <<>>

\* invocation p's write goes through on this step, and p overlapped no other
\* invocation
WritesAlone(p) ==
    /\ calls[p].pc = "write"
    /\ calls'[p].pc = "done"
    /\ ~calls'[p].threw
    /\ \A q \in DOMAIN calls \ {p} : calls[q].pc = "idle" \/ q \in calls[p].finishedBefore

\* new is old with the records of updated's id replaced by it, the others in place
UpdateFrame(old, new, updated) ==
    /\ Len(new) = Len(old)
    /\ \A i \in 1..Len(old) :
          new[i] = IF old[i].id = updated.id THEN updated ELSE old[i]

\* the positions of old that keep their record when id is deleted
KeptIdx(old, id) == {i \in 1..Len(old) : old[i].id # id}

\* new is old without the records of id, the others in their order
DeleteFrame(old, new, id) ==
    /\ Len(new) = Cardinality(KeptIdx(old, id))
    /\ \A i \in KeptIdx(old, id) :
          new[Cardinality({j \in KeptIdx(old, id) : j <= i})] = old[i]
    /\ (\A i \in 1..Len(old) : old[i].id # id) => new = old

\* the stored list changes on this step as p's update or delete says
FrameKept(p) ==
    IF calls[p].op = "update"
    THEN UpdateFrame(StoredTransactions, StoredTransactions', calls[p].arg[1])
    ELSE DeleteFrame(StoredTransactions, StoredTransactions', calls[p].arg[1])

\* C21: in the stored list updateTransaction changes only the records with the updated
\* transaction's id (none has it: nothing changes, nothing is inserted),
\* deleteTransaction removes exactly the records with the given id (none has it, as on
\* a second delete: nothing changes), and the other records keep their place and order
C21_UpdateDeleteFrame ==
    [][\A p \in DOMAIN calls :
          (WritesAlone(p) /\ calls[p].op \in {"update", "delete"}) => FrameKept(p)]_vars

\* the same for the calls whose getItem worked: the frame is kept whenever the list
\* that was read is the list stored
C21_FrameWhenReadWorks ==
    [][\A p \in DOMAIN calls :
          (/\ WritesAlone(p)
           /\ calls[p].op \in {"update", "delete"}
           /\ ~calls[p].readFailed) => FrameKept(p)]_vars

\* invocation p, which overlapped no other, ends on this step: its write goes through
\* or fails
EndsAlone(p) ==
    /\ calls[p].pc = "write"
    /\ calls'[p].pc = "done"
    /\ \A q \in DOMAIN calls \ {p} : calls[q].pc = "idle" \/ q \in calls[p].finishedBefore

\* C25: when saveTransaction returns or throws, every transaction stored before the
\* call is still stored, a call whose read failed and whose write worked included
C25_SaveKeepsStoredTransactions ==
    [][\A p \in DOMAIN calls :
          (EndsAlone(p) /\ calls[p].op = "add") =>
              \A i \in 1..Len(StoredTransactions) :
                  \E j \in 1..Len(StoredTransactions') :
                      StoredTransactions'[j] = StoredTransactions[i]]_vars

\* the same for the calls whose getItem worked
C25_SaveKeepsWhenReadWorks ==
    [][\A p \in DOMAIN calls :
          (EndsAlone(p) /\ calls[p].op = "add" /\ ~calls[p].readFailed) =>
              /\ Len(StoredTransactions') >= Len(StoredTransactions)
              /\ SubSeq(StoredTransactions', 1, Len(StoredTransactions))
                     = StoredTransactions]_vars

\* C22: the stored profile list is never empty and always holds the profile whose id
\* is the manager's currentProfileId
C22_CurrentProfileStored ==
    /\ Len(ExistingProfiles) > 0
    /\ currentProfileId \in ProfileIds(ExistingProfiles)

\* the part that holds: the stored profile list is never empty
C22_ProfilesNeverEmpty == Len(ExistingProfiles) > 0

\* the step on which call p's saveProfiles has written its list
SavesProfiles(p) ==
    /\ calls[p].pc = "saveProfiles"
    /\ calls'[p].pc # "saveProfiles"
    /\ routineStorage'[PROFILES] # routineStorage[PROFILES]

\* deleteProfile's write never removes the profile that is current when it writes
C22_DeleteKeepsCurrent ==
    [][\A p \in DOMAIN calls :
          (SavesProfiles(p) /\ calls[p].fn = "deleteProfile") =>
              (currentProfileId \in ProfileIds(ExistingProfiles) =>
                   currentProfileId \in ProfileIds(ExistingProfiles'))]_vars

\* deleteProfile's write never leaves the stored list empty
C22_DeleteKeepsLast ==
    [][\A p \in DOMAIN calls :
          (SavesProfiles(p) /\ calls[p].fn = "deleteProfile") =>
              Len(calls[p].profiles) > 0]_vars

\* the step on which switchProfile has finished
SwitchFinishes == screenCall' # <<>> /\ screenCall'.fn = "switchProfile"

\* the ids of the stored profiles whose isActive is true
ActiveIds == {ExistingProfiles[i].id : i \in {j \in 1..Len(ExistingProfiles) :
                                                  ExistingProfiles[j].isActive}}

\* the persisted active-profile key as getActiveProfile reads it
PersistedActive == getActiveProfile(routineStorage[ACTIVE_PROFILE], TRUE)

\* the three records of the active profile agree
ActiveRecordsAgree ==
    /\ Cardinality({j \in 1..Len(ExistingProfiles) : ExistingProfiles[j].isActive}) = 1
    /\ ActiveIds = {currentProfileId}
    /\ PersistedActive = currentProfileId

\* C26: when switchProfile has finished, exactly one stored profile is active and its
\* id is the persisted active-profile key and currentProfileId; when it returned false
\* the stored profiles, the key and currentProfileId are as before the call
C26_SwitchKeepsRecordsAgreeing ==
    [][SwitchFinishes =>
          /\ ActiveRecordsAgree'
          /\ screenCall'.result = <<FALSE>> =>
                 /\ ExistingProfiles' = ExistingProfiles
                 /\ PersistedActive' = PersistedActive
                 /\ currentProfileId' = currentProfileId]_vars

\* the part that holds: a switchProfile that returned true leaves the stored profiles
\* of one id active, that id being the persisted key and currentProfileId (two
\* profiles created in the same millisecond share their id)
C26_SuccessfulSwitchAgrees ==
    [][(SwitchFinishes /\ screenCall'.result = <<TRUE>>) =>
          /\ ActiveIds' = {currentProfileId'}
          /\ PersistedActive' = currentProfileId']_vars

\* the part that holds: a switchProfile that returned false leaves the key and
\* currentProfileId as they were
C26_FailedSwitchKeepsCurrent ==
    [][(SwitchFinishes /\ screenCall'.result = <<FALSE>>) =>
          (PersistedActive' = PersistedActive /\ currentProfileId' = currentProfileId)]_vars

\* the step on which initializeProfiles has finished on storage holding no profiles
InitializesEmpty ==
    /\ routineStorage[PROFILES] = <<>>
    /\ screenCall' # <<>>
    /\ screenCall'.fn = "initializeProfiles"
    /\ screenCall'.result = <<>>
    /\ ~screenCall'.readFailed

\* C30: after initializeProfiles on storage holding no profiles the stored list holds
\* the defaults 'personal', 'business' and 'shared', 'personal' alone being active
C30_InitializeStoresThreeDefaults ==
    [][InitializesEmpty =>
          /\ routineStorage'[PROFILES] # <<>>
          /\ {"personal", "business", "shared"} \subseteq ProfileIds(ExistingProfiles')
          /\ ActiveIds' = {"personal"}]_vars

\* what the code does: on storage with no profile list initializeProfiles writes
\* none, getProfiles having returned DEFAULT_PROFILES; the list still reads as
\* 'personal' alone, so that 'business' is no profile to switch to
C30_InitializeOnNoListStoresNothing ==
    [][(/\ routineStorage[PROFILES] = <<>>
        /\ screenCall' # <<>>
        /\ screenCall'.fn = "initializeProfiles") =>
          /\ routineStorage'[PROFILES] = <<>>
          /\ ProfileIds(ExistingProfiles') = {"personal"}
          /\ ActiveIds' = {"personal"}]_vars

\* the stored record of transaction id is a manually set one
ManuallyClassified(id) ==
    LET record == FindClassification(StoredClassifications, id)
    IN  record # <<>> /\ ~record[1].aiGenerated

\* C27: the first-display classification of another transaction, storing its record in
\* the shared list, leaves a manually reclassified transaction's record as the user set
\* it, with aiGenerated = false
C27_ManualSurvivesOtherLoads ==
    [][\A b \in 1..Len(badges) : \A t \in BadgeTransactions :
          (LoadStored(b) /\ badges[b].transaction.id # t.id /\ ManuallyClassified(t.id)) =>
              FindClassification(StoredClassifications', t.id)
                  = FindClassification(StoredClassifications, t.id)]_vars

\* the same when the first display read the list after the manual record was stored
C27_ManualSurvivesLaterReads ==
    [][\A b \in 1..Len(badges) : \A t \in BadgeTransactions :
          (/\ LoadStored(b)
           /\ badges[b].transaction.id # t.id
           /\ ManuallyClassified(t.id)
           /\ FindClassification(badges[b].list, t.id)
                  = FindClassification(StoredClassifications, t.id)) =>
              FindClassification(StoredClassifications', t.id)
                  = FindClassification(StoredClassifications, t.id)]_vars

\* some keyword of the list occurs in the text
HitsKeyword(keywords, text) == \E i \in 1..Len(keywords) : Includes(text, keywords[i])

\* the increments of transaction t whose lower-cased category and note are text, in
\* tenths
IncrementsOf(t, text) ==
    (IF ContainsNeedCategory(t.category) THEN 3 ELSE 0)
      + (IF HitsKeyword(NEED_KEYWORDS, text) THEN 2 ELSE 0)
      + (IF HitsKeyword(WANT_KEYWORDS, text) THEN 2 ELSE 0)
      + (IF t.amount > 200 THEN 1 ELSE 0)
      + (IF t.amount < 50 THEN 1 ELSE 0)
      + (IF Len(NoteOrEmpty(t.note)) > 10 THEN 1 ELSE 0)

\* the increments of the classified transaction
ConfidenceIncrements ==
    IncrementsOf(transaction,
                 ToLowerCase(transaction.category \o " " \o NoteOrEmpty(transaction.note)))

\* n capped at 1.0
CappedAtOne(n) == IF n < 10 THEN n ELSE 10

\* C24 as stated: the confidence is the sum of the increments capped at 1.0, so that a
\* transaction triggering none has confidence 0
C24_ConfidenceIsSumOfIncrements ==
    ClassifyDone => classified[1].confidence = CappedAtOne(ConfidenceIncrements)

\* C24: the confidence is the base 0.5 plus the sum of the increments, capped at 1.0,
\* so that a transaction triggering none has confidence 0.5
C24_ConfidenceIsBasePlusIncrements ==
    ClassifyDone => classified[1].confidence = CappedAtOne(5 + ConfidenceIncrements)

\* C24 witness: a transaction that triggers no increment is returned with 0.5
C24_Witness ==
    /\ ClassifyDone
    /\ ConfidenceIncrements = 0
    /\ classified[1].confidence = 5

\* a want-keyword hit, an amount above 200 and a long note together give 0.9
C24_EveryIncrement ==
    /\ ClassifyDone
    /\ transaction.category = "Misc"
    /\ transaction.note = <<"movie ticket and coffee">>
    /\ transaction.amount = 201
    /\ classified[1].confidence = 9

\* the step on which loadForecast runs next after a handleSetBudget that succeeded
ForecastAfterSetBudget ==
    /\ screenCall # <<>>
    /\ screenCall.fn = "handleSetBudget"
    /\ screenCall.alert = <<"Monthly budget updated!">>
    /\ screenCall'.fn = "loadForecast"

\* C23: the forecast that follows handleSetBudget of amount A, when it can read the
\* budgets, uses A as its monthly budget, whatever budgets were stored before
C23_NextForecastUsesSetBudget ==
    [][(ForecastAfterSetBudget /\ screenCall'.amount > 0) =>
          (forecast' # <<>> /\ forecast'[1].monthlyBudget = screenCall.amount)]_vars

\* what the code does: the forecast uses the sum of every stored monthly budget, the
\* one just set added to those stored before, whenever it can read them
C23_NextForecastUsesSumOfBudgets ==
    [][(ForecastAfterSetBudget /\ screenCall'.amount > 0) =>
          /\ forecast' # <<>>
          /\ forecast'[1].monthlyBudget = TotalBudget(StoredBudgets)
          /\ forecast'[1].monthlyBudget >= screenCall.amount]_vars

\* the claim's case when nothing else is stored: the forecast uses A
C23_NextForecastUsesOnlyBudget ==
    [][(ForecastAfterSetBudget /\ screenCall'.amount > 0 /\ Len(StoredBudgets) = 1) =>
          (forecast' # <<>> /\ forecast'[1].monthlyBudget = screenCall.amount)]_vars

\* a budget of 100 and then one of 250 have been set with nothing else stored, and the
\* forecast uses 350
C23_SecondBudgetAdded ==
    /\ Len(StoredBudgets) = 2
    /\ \A i \in 1..2 : StoredBudgets[i].category = "Monthly Budget"
    /\ StoredBudgets[2].amount = 250
    /\ screenCall # <<>>
    /\ screenCall.fn = "loadForecast"
    /\ forecast # <<>>
    /\ forecast[1].monthlyBudget = 350

\* the step on which processRecurringExpenses has ended
ProcessEnds ==
    /\ screenCall' # <<>>
    /\ screenCall'.fn = "processRecurringExpenses"
    /\ today' = today
    /\ now' = now

\* the stored transactions with the id
TransactionsOfId(id) ==
    {i \in 1..Len(StoredTransactions) : StoredTransactions[i].id = id}

\* C28: a transaction processRecurringExpenses creates for a recurring expense has the
\* title, amount, category and type of the stored transaction the expense's
\* transactionId names, an id no stored transaction had, and the expense's due date as
\* its date; the expense was active and due
C28_CreatedFromOwnTransaction ==
    [][ProcessEnds =>
          \A k \in 1..Len(screenCall'.created) :
              LET recurring == screenCall'.created[k][1]
                  newTransaction == screenCall'.created[k][2]
              IN  /\ \E i \in TransactionsOfId(recurring.transactionId) :
                        /\ newTransaction.title = StoredTransactions[i].title
                        /\ newTransaction.amount = StoredTransactions[i].amount
                        /\ newTransaction.category = StoredTransactions[i].category
                        /\ newTransaction.type = StoredTransactions[i].type
                  /\ TransactionsOfId(newTransaction.id) = {}
                  /\ newTransaction.date = DatePart(recurring.nextDueDate)
                  /\ recurring.isActive
                  /\ DateLeq(NewDate(recurring.nextDueDate), today)]_vars

\* what the code does: the created transaction copies the transaction the caller
\* passes, whatever the expense's transactionId; the rest is as claimed
C28_CreatedFromArgument ==
    [][ProcessEnds =>
          \A k \in 1..Len(screenCall'.created) :
              LET recurring == screenCall'.created[k][1]
                  newTransaction == screenCall'.created[k][2]
                  originalTransaction == screenCall'.original[1]
              IN  /\ newTransaction.title = originalTransaction.title
                  /\ newTransaction.amount = originalTransaction.amount
                  /\ newTransaction.category = originalTransaction.category
                  /\ newTransaction.type = originalTransaction.type
                  /\ TransactionsOfId(newTransaction.id) = {}
                  /\ newTransaction.date = DatePart(recurring.nextDueDate)
                  /\ recurring.isActive
                  /\ DateLeq(NewDate(recurring.nextDueDate), today)]_vars

\* the stored recurring expenses with the id, after the step
RecurringOfIdAfter(id) ==
    {i \in 1..Len(StoredRecurring') : StoredRecurring'[i].id = id}

\* the expense is stored after the step with its nextDueDate one period later, a
\* later day
MovedOnePeriod(recurring) ==
    \E i \in RecurringOfIdAfter(recurring.id) :
        /\ NewDate(StoredRecurring'[i].nextDueDate)
               = calculateNextDueDate(NewDate(recurring.nextDueDate), recurring.frequency)
        /\ ~DateLeq(NewDate(StoredRecurring'[i].nextDueDate),
                    NewDate(recurring.nextDueDate))

\* C29: a call of processRecurringExpenses creates at most one transaction for a
\* recurring expense, and moves the nextDueDate of each expense it creates one for
\* forward by one period
C29_OnePerCallAndMovesForward ==
    [][ProcessEnds =>
          /\ \A k, l \in 1..Len(screenCall'.created) :
                 screenCall'.created[k][1].id = screenCall'.created[l][1].id => k = l
          /\ \A k \in 1..Len(screenCall'.created) :
                 MovedOnePeriod(screenCall'.created[k][1])]_vars

\* the same of a call in which every storage call worked; no active expense that was
\* due is then left without its transaction
C29_MovesForwardWhenStorageWorks ==
    [][(ProcessEnds /\ ~screenCall'.threw /\ ~screenCall'.readFailed) =>
          /\ \A k, l \in 1..Len(screenCall'.created) :
                 screenCall'.created[k][1].id = screenCall'.created[l][1].id => k = l
          /\ \A k \in 1..Len(screenCall'.created) :
                 MovedOnePeriod(screenCall'.created[k][1])
          /\ \A i \in 1..Len(StoredRecurring) :
                 (StoredRecurring[i].isActive
                  /\ DateLeq(NewDate(StoredRecurring[i].nextDueDate), today)) =>
                     \E k \in 1..Len(screenCall'.created) :
                         screenCall'.created[k][1] = StoredRecurring[i]
          /\ Len(StoredTransactions') = Len(StoredTransactions) + Len(screenCall'.created)]_vars

\* one recurring expense was ever created, and two stored transactions were created
\* for the same due date of it
C29_TwoForOnePeriod ==
    /\ now = Len(Installed) + 2
    /\ \E i, j \in 1..Len(StoredTransactions) :
          /\ i < j
          /\ StartsWith(StoredTransactions[i].id, "recurring_")
          /\ StartsWith(StoredTransactions[j].id, "recurring_")
          /\ StoredTransactions[i].date = StoredTransactions[j].date

====
